---- MODULE Spec2Model ----
(***************************************************************************)
(* Zenaflow: the relational store of the message-relay platform (users,    *)
(* applications, user_applications, chat_messages), the statements the     *)
(* workflows run against it, and resolve_user_app_access.                  *)
(*                                                                         *)
(* Sources: the schema (src/unnamed/part_003), the query reference         *)
(* (src/unnamed/part_000), the router statements of the Deanna plan        *)
(* (src/doc/migrations/001_deanna_cognitive_brain_plan.md) and the access  *)
(* migration (src/doc/migrations/002_digital_twin_memory.sql).            *)
(*                                                                         *)
(* SQL values: an integer column (UUID keys, BIGINT ids, TIMESTAMPTZ) is a *)
(* positive number or NULL; a text column is a string or SqlNull; a handle *)
(* is a sequence of characters or NullHandle.  A uuid is the number of the *)
(* row in creation order: uuid_generate_v4() never repeats a value.        *)
(***************************************************************************)
EXTENDS Integers, Sequences, FiniteSets, TLC

VARIABLES
    users,              \* table users: a set of rows
    applications,       \* table applications: a set of rows
    user_applications,  \* table user_applications (the grants)
    chat_messages,      \* table chat_messages
    now,                \* NOW(): the database clock
    ids,                \* uuids handed out so far, per table
    last,               \* what the last statement returned to its caller
    calls,              \* RaceSpec: the outcome of each concurrent delivery
    resolved,           \* AccessSpec: the resolver call awaiting the access gate
    session,            \* SessionSpec: the session file, the clock, the last wrapper run
    slow_brain,         \* SlowBrainSpec: the Redis keys and lists, and each run's position
    pulse,              \* PulseSpec: the state object through the Pulse & Decay node
    subgraph,           \* SubgraphSpec: the relations table and a get_local_subgraph call
    dns                 \* DnsSpec: a tool call of the cloudflare-dns server

\* The variables of the subsystems beside the relational store.
aux == <<session, slow_brain, pulse, subgraph, dns>>

vars == <<users, applications, user_applications, chat_messages, now, ids, last, calls,
          resolved, aux>>

\* The relational store, its clock and its callers.
base == <<users, applications, user_applications, chat_messages, now, ids, last, calls,
          resolved>>

\* A subsystem that takes no part in a specification.
Unused == "unused"
AuxUnused ==
    /\ session = Unused
    /\ slow_brain = Unused
    /\ pulse = Unused
    /\ subgraph = Unused
    /\ dns = Unused

storeVars == <<users, applications, user_applications, chat_messages>>

(***************************************************************************)
(* Bounds of the model.                                                    *)
(***************************************************************************)
MaxMessages == 2    \* chat_messages rows inserted in a behaviour
MaxTime == 2        \* the clock runs from 1 to MaxTime
NumCallers == 2     \* concurrent webhook deliveries in RaceSpec

(***************************************************************************)
(* SQL NULL.                                                               *)
(***************************************************************************)
NULL == 0
SqlNull == "<NULL>"

(***************************************************************************)
(* JSONB payloads: an object with (at most) the keys platform and          *)
(* message_id.  A key is absent, holds JSON null, or holds a text.         *)
(***************************************************************************)
Absent == "<absent>"
JNull == "<json null>"

PlatformVals == {"telegram", "whatsapp"}
MessageIdVals == {Absent, JNull, "", "123"}
Payloads == [platform : PlatformVals, message_id : MessageIdVals]

\* jsonb ? 'key': the key exists at the top level, whatever it holds.
HasKey(p, k) == p[k] # Absent

\* jsonb ->> 'key': the value as text; SQL NULL for a missing key or JSON null.
JsonText(p, k) == IF p[k] \in {Absent, JNull} THEN SqlNull ELSE p[k]

RequestTexts == {"hi", "yo"}
ResponseTexts == {"r1"}
ErrorTexts == {"e1"}

(***************************************************************************)
(* Table chat_messages: its constraints.                                   *)
(***************************************************************************)
MessageStatuses == {"pending", "completed", "failed", "timeout"}
TerminalStatuses == {"completed", "failed", "timeout"}

\* NOT NULL columns of chat_messages.
MessageNotNullOK(r) ==
    /\ r.user_app_id # NULL
    /\ r.request_text # SqlNull
    /\ r.status # SqlNull

\* Mutant of MessageChecksOK: the table without the two integrity CHECKs.
MessageChecksOKNoIntegrity(r) ==
    /\ r.status \in MessageStatuses
    /\ HasKey(r.source_payload, "platform") /\ HasKey(r.source_payload, "message_id")

\* CHECK constraints of chat_messages.
MessageChecksOK(r) ==
    /\ r.status \in MessageStatuses
    /\ (r.status = "completed" /\ r.response_text # SqlNull /\ r.responded_at # NULL)
          \/ r.status # "completed"
    /\ (r.status = "failed" /\ r.error_message # SqlNull) \/ r.status # "failed"
    /\ HasKey(r.source_payload, "platform") /\ HasKey(r.source_payload, "message_id")

\* The key of the unique index uq_chat_messages_source_platform_message_id.
DedupKey(p) == <<JsonText(p, "platform"), JsonText(p, "message_id")>>

\* Two index entries collide when every component is non-NULL and equal:
\* a unique index treats NULLs as distinct.
KeysCollide(k1, k2) ==
    /\ k1 = k2
    /\ k1[1] # SqlNull
    /\ k1[2] # SqlNull

\* The row of chat_messages the unique index finds in conflict with payload p.
ConflictingMessages(p) ==
    {r \in chat_messages : KeysCollide(DedupKey(r.source_payload), DedupKey(p))}

\* FOREIGN KEY (user_app_id) REFERENCES user_applications(user_app_id)
GrantExists(ua) == \E g \in user_applications : g.user_app_id = ua

NewMessage(id, ua, text, payload) ==
    [message_id |-> id, user_app_id |-> ua, request_text |-> text,
     response_text |-> SqlNull, source_payload |-> payload, status |-> "pending",
     error_message |-> SqlNull, responded_at |-> NULL]

(***************************************************************************)
(* The statements run against chat_messages.  Each is one SQL statement,   *)
(* executed atomically by the store; Stmt* gives what it returns and the   *)
(* rows it leaves.                                                         *)
(***************************************************************************)
GrantIds == 1..3            \* user_app_id values a caller may pass
MessageIds == 1..MaxMessages

Outcome(result, id, rows) == [result |-> result, id |-> id, rows |-> rows]

\* Mutant of StmtInsertPending: the insert without the ON CONFLICT clause and
\* without the unique index behind it.
StmtInsertPendingNoArbiter(ua, text, payload) ==
    LET r == NewMessage(ids.chat_messages + 1, ua, text, payload) IN
    IF ~MessageNotNullOK(r) THEN Outcome("not_null_violation", NULL, chat_messages)
    ELSE IF ~MessageChecksOK(r) THEN Outcome("check_violation", NULL, chat_messages)
    ELSE IF ~GrantExists(ua) THEN Outcome("foreign_key_violation", NULL, chat_messages)
    ELSE Outcome("fresh", r.message_id, chat_messages \cup {r})

\* Mutant of StmtInsertPending: ON CONFLICT ... DO UPDATE SET request_text,
\* user_app_id, status (an upsert) for DO NOTHING.
StmtInsertPendingUpsert(ua, text, payload) ==
    LET r == NewMessage(ids.chat_messages + 1, ua, text, payload) IN
    IF ~MessageNotNullOK(r) THEN Outcome("not_null_violation", NULL, chat_messages)
    ELSE IF ~MessageChecksOK(r) THEN Outcome("check_violation", NULL, chat_messages)
    ELSE IF ConflictingMessages(payload) # {}
    THEN Outcome("duplicate", NULL,
                 (chat_messages \ ConflictingMessages(payload)) \cup
                 {[x EXCEPT !.request_text = text, !.status = "pending"] :
                     x \in ConflictingMessages(payload)})
    ELSE IF ~GrantExists(ua) THEN Outcome("foreign_key_violation", NULL, chat_messages)
    ELSE Outcome("fresh", r.message_id, chat_messages \cup {r})

\* INSERT INTO chat_messages (...) VALUES ($1, $2, $3, 'pending')
\* ON CONFLICT ((source_payload->>'platform'), (source_payload->>'message_id'))
\* DO NOTHING RETURNING message_id;
\* The row's own constraints are checked before the arbiter index is
\* consulted; the foreign key is checked after the row is inserted, so a
\* skipped row is never checked against it.  No row returned: "duplicate".
StmtInsertPending(ua, text, payload) ==
    LET r == NewMessage(ids.chat_messages + 1, ua, text, payload) IN
    IF ~MessageNotNullOK(r) THEN Outcome("not_null_violation", NULL, chat_messages)
    ELSE IF ~MessageChecksOK(r) THEN Outcome("check_violation", NULL, chat_messages)
    ELSE IF ConflictingMessages(payload) # {} THEN Outcome("duplicate", NULL, chat_messages)
    ELSE IF ~GrantExists(ua) THEN Outcome("foreign_key_violation", NULL, chat_messages)
    ELSE Outcome("fresh", r.message_id, chat_messages \cup {r})

\* INSERT INTO chat_messages (...) VALUES (...) RETURNING message_id, requested_at;
\* (the query reference's insert: no ON CONFLICT clause)
StmtInsertMessage(ua, text, payload) ==
    LET r == NewMessage(ids.chat_messages + 1, ua, text, payload) IN
    IF ~MessageNotNullOK(r) THEN Outcome("not_null_violation", NULL, chat_messages)
    ELSE IF ~MessageChecksOK(r) THEN Outcome("check_violation", NULL, chat_messages)
    ELSE IF ConflictingMessages(payload) # {} THEN Outcome("unique_violation", NULL, chat_messages)
    ELSE IF ~GrantExists(ua) THEN Outcome("foreign_key_violation", NULL, chat_messages)
    ELSE Outcome("fresh", r.message_id, chat_messages \cup {r})

\* The rows an UPDATE ... WHERE message_id = $1 touches.
MessageById(mid) == {r \in chat_messages : r.message_id = mid}

\* An UPDATE of chat_messages: every touched row is replaced by Change(row);
\* a new row that breaks a constraint aborts the statement.
StmtUpdate(old, new) ==
    IF old = {} THEN Outcome("no_row", NULL, chat_messages)
    ELSE IF \E r \in new : ~MessageNotNullOK(r) THEN Outcome("not_null_violation", NULL, chat_messages)
    ELSE IF \E r \in new : ~MessageChecksOK(r) THEN Outcome("check_violation", NULL, chat_messages)
    ELSE Outcome("updated", NULL, (chat_messages \ old) \cup new)

\* UPDATE chat_messages SET response_text = $2, status = 'completed',
\* responded_at = NOW() WHERE message_id = $1;
StmtComplete(mid, text) ==
    StmtUpdate(MessageById(mid),
               {[r EXCEPT !.response_text = text, !.status = "completed",
                          !.responded_at = now] : r \in MessageById(mid)})

\* UPDATE chat_messages SET status = 'failed', error_message = $2
\* WHERE message_id = $1;
StmtFail(mid, err) ==
    StmtUpdate(MessageById(mid),
               {[r EXCEPT !.status = "failed", !.error_message = err] :
                   r \in MessageById(mid)})

Returned(op, o) == [op |-> op, result |-> o.result, id |-> o.id]

(***************************************************************************)
(* Actions of the message intake.                                          *)
(***************************************************************************)
\* record_if_new: the router's "Insert Pending chat_messages" node.
RecordIfNew ==
    /\ ids.chat_messages < MaxMessages
    /\ \E ua \in GrantIds, text \in RequestTexts \cup {SqlNull}, payload \in Payloads :
         LET o == StmtInsertPending(ua, text, payload) IN
         /\ chat_messages' = o.rows
         /\ ids' = IF o.result = "fresh"
                      THEN [ids EXCEPT !.chat_messages = @ + 1] ELSE ids
         /\ last' = Returned("record_if_new", o)
    /\ UNCHANGED <<users, applications, user_applications, now, calls, resolved, aux>>

\* The query reference's "Insert New Message (Pending Status)".
InsertNewMessage ==
    /\ ids.chat_messages < MaxMessages
    /\ \E ua \in GrantIds, text \in RequestTexts \cup {SqlNull}, payload \in Payloads :
         LET o == StmtInsertMessage(ua, text, payload) IN
         /\ chat_messages' = o.rows
         /\ ids' = IF o.result = "fresh"
                      THEN [ids EXCEPT !.chat_messages = @ + 1] ELSE ids
         /\ last' = Returned("insert", o)
    /\ UNCHANGED <<users, applications, user_applications, now, calls, resolved, aux>>

\* complete: "Update Message with Response" / "Complete chat_messages".
Complete ==
    /\ \E mid \in MessageIds, text \in ResponseTexts \cup {SqlNull} :
         LET o == StmtComplete(mid, text) IN
         /\ chat_messages' = o.rows
         /\ last' = Returned("complete", o)
    /\ UNCHANGED <<users, applications, user_applications, now, ids, calls, resolved, aux>>

\* fail: "Mark Message as Failed".
Fail ==
    /\ \E mid \in MessageIds, err \in ErrorTexts \cup {SqlNull} :
         LET o == StmtFail(mid, err) IN
         /\ chat_messages' = o.rows
         /\ last' = Returned("fail", o)
    /\ UNCHANGED <<users, applications, user_applications, now, ids, calls, resolved, aux>>

\* Mutant of RevokeAccess: the foreign key without ON DELETE CASCADE action
\* on chat_messages (the grant goes, its messages stay).
RevokeAccessNoCascade ==
    /\ ~resolved.called
    /\ \E g \in user_applications :
         user_applications' = user_applications \ {g}
    /\ UNCHANGED <<users, applications, chat_messages, now, ids, last, calls, resolved, aux>>

\* "Revoke User Access to Application": DELETE FROM user_applications ...;
\* fk_chat_messages_user_app_id ... ON DELETE CASCADE removes the grant's
\* messages in the same statement.
RevokeAccess ==
    /\ ~resolved.called
    /\ \E g \in user_applications :
         /\ user_applications' = user_applications \ {g}
         /\ chat_messages' = {r \in chat_messages : r.user_app_id # g.user_app_id}
    /\ UNCHANGED <<users, applications, now, ids, last, calls, resolved, aux>>

\* Time passes.
Tick ==
    /\ ~resolved.called
    /\ now < MaxTime
    /\ now' = now + 1
    /\ UNCHANGED <<users, applications, user_applications, chat_messages, ids, last, calls, resolved, aux>>

(***************************************************************************)
(* Spec: the message intake over a store that holds two registered users,  *)
(* two applications and two grants.                                        *)
(***************************************************************************)
Callers == 1..NumCallers
Idle == [payload |-> [platform |-> Absent, message_id |-> Absent], ua |-> NULL,
         text |-> SqlNull, result |-> "idle", id |-> NULL]

NullHandle == <<"<NULL>">>
NoCall == [called |-> FALSE, app_name |-> SqlNull, telegram_user_id |-> NULL,
           telegram_id |-> NullHandle, rows |-> <<>>]

User(id, tuid, handle, status, after, created) ==
    [user_id |-> id, telegram_user_id |-> tuid, telegram_id |-> handle,
     status |-> status, active_after |-> after, created_at |-> created]

App(id, name, active) == [app_id |-> id, app_name |-> name, is_active |-> active]

Grant(id, u, a) == [user_app_id |-> id, user_id |-> u, app_id |-> a]

Init ==
    /\ users = {User(1, 1, <<"@", "a">>, "active", NULL, 1),
                User(2, NULL, <<"@", "b">>, "active", NULL, 1)}
    /\ applications = {App(1, "deanna", TRUE), App(2, "b4", TRUE)}
    /\ user_applications = {Grant(1, 1, 1), Grant(2, 2, 1)}
    /\ chat_messages = {}
    /\ now = 1
    /\ ids = [users |-> 2, applications |-> 2, user_applications |-> 2,
              chat_messages |-> 0]
    /\ last = [op |-> "none", result |-> "none", id |-> NULL]
    /\ calls = [c \in Callers |-> Idle]
    /\ resolved = NoCall
    /\ AuxUnused

Next ==
    \/ RecordIfNew
    \/ InsertNewMessage
    \/ Complete
    \/ Fail
    \/ RevokeAccess
    \/ Tick

Spec == Init /\ [][Next]_vars

(***************************************************************************)
(* RaceSpec: NumCallers webhook deliveries, each running the router's      *)
(* insert once, in any order.  The statement is atomic in the store, so a  *)
(* race of the callers is an interleaving of their statements.             *)
(***************************************************************************)
Deliver(c) ==
    /\ calls[c].result = "idle"
    /\ \E ua \in GrantIds, text \in RequestTexts \cup {SqlNull}, payload \in Payloads :
         LET o == StmtInsertPending(ua, text, payload) IN
         /\ chat_messages' = o.rows
         /\ ids' = IF o.result = "fresh"
                      THEN [ids EXCEPT !.chat_messages = @ + 1] ELSE ids
         /\ calls' = [calls EXCEPT ![c] =
                        [payload |-> payload, ua |-> ua, text |-> text,
                         result |-> o.result, id |-> o.id]]
    /\ UNCHANGED <<users, applications, user_applications, now, last, resolved, aux>>

RaceNext == \E c \in Callers : Deliver(c)

RaceSpec == Init /\ [][RaceNext]_vars

(***************************************************************************)
(* Claims about the message intake.                                        *)
(***************************************************************************)

\* C1: the store holds at most one chat_messages row for each
\* (payload.platform, payload.message_id) pair, for every payload it accepts.
\* Refuted: the CHECK accepts a payload whose message_id is JSON null, ->>
\* turns it into SQL NULL, and the unique index never finds two NULLs equal.
C1_AtMostOneRowPerPair ==
    \A r1 \in chat_messages, r2 \in chat_messages :
        (/\ r1.source_payload.platform = r2.source_payload.platform
         /\ r1.source_payload.message_id = r2.source_payload.message_id)
        => r1 = r2

\* Callers of RaceSpec that ran the insert with a payload of dedup key k.
CalledWith(k) ==
    {c \in Callers : calls[c].result # "idle" /\ DedupKey(calls[c].payload) = k}

\* The dedup keys whose platform and message id are both texts.
TextKeys ==
    {k \in {DedupKey(p) : p \in Payloads} : k[1] # SqlNull /\ k[2] # SqlNull}

C3_TerminalStatusIsFinal ==
    [][ /\ \A n \in chat_messages' :
              (\A r \in chat_messages : r.message_id # n.message_id)
                  => n.status = "pending"
        /\ \A r \in chat_messages : \A n \in chat_messages' :
              (r.message_id = n.message_id /\ r.status \in TerminalStatuses)
                  => n.status = r.status ]_vars

\* C4: once a complete or fail has been applied to a message, every later
\* complete or fail on it returns a conflict (it updates no row) and leaves
\* status, response text, response timestamp and error text as they were.
\* Refuted for the same reason as C3.
C4_SecondTerminalWriteConflicts ==
    [][ \A r \in chat_messages :
          (r.status \in {"completed", "failed"} /\ last'.op \in {"complete", "fail"})
              => r \in chat_messages' ]_vars

(***************************************************************************)
(* Text values of the handle columns and arguments: sequences of           *)
(* characters, with the SQL functions resolve_user_app_access applies.     *)
(***************************************************************************)
Chars == {" ", "\t", "@", "a", "A"}
MaxHandleLen == 2   \* longest handle argument passed to the resolver

RECURSIVE LTrim(_)
LTrim(s) == IF s # <<>> /\ Head(s) = " " THEN LTrim(Tail(s)) ELSE s

RECURSIVE RTrim(_)
RTrim(s) == IF s # <<>> /\ s[Len(s)] = " " THEN RTrim(SubSeq(s, 1, Len(s) - 1)) ELSE s

\* trim(text): strips spaces from both ends; NULL for NULL.
Trim(s) == IF s = NullHandle THEN NullHandle ELSE LTrim(RTrim(s))

\* NULLIF(a, b)
NullIf(a, b) == IF a = b THEN NullHandle ELSE a

LowerChar(c) == IF c = "A" THEN "a" ELSE c

\* lower(text); NULL for NULL.
Lower(s) == IF s = NullHandle THEN NullHandle ELSE [i \in 1..Len(s) |-> LowerChar(s[i])]

\* Mutant of NormalizeHandle: without the step that prepends '@'.
NormalizeHandleNoPrefix(p_telegram_id) == NullIf(Trim(p_telegram_id), <<>>)

\* v_telegram_id := NULLIF(trim(p_telegram_id), '');
\* IF v_telegram_id IS NOT NULL AND left(v_telegram_id, 1) <> '@' THEN
\*     v_telegram_id := '@' || v_telegram_id;
NormalizeHandle(p_telegram_id) ==
    LET v == NullIf(Trim(p_telegram_id), <<>>) IN
    IF v # NullHandle /\ Head(v) # "@" THEN <<"@">> \o v ELSE v

(***************************************************************************)
(* resolve_user_app_access(p_app_name, p_telegram_user_id, p_telegram_id)  *)
(***************************************************************************)
Row(user_id, user_app_id, app_id, decision, user_status, active_after) ==
    [user_id |-> user_id, user_app_id |-> user_app_id, app_id |-> app_id,
     decision |-> decision, user_status |-> user_status, active_after |-> active_after]

\* Mutant of ActiveAppIds: the lookup without "AND a.is_active = TRUE".
ActiveAppIdsAnyState(p_app_name) ==
    {a.app_id : a \in {x \in applications : x.app_name = p_app_name}}

\* SELECT a.app_id INTO v_app_id FROM applications a
\* WHERE a.app_name = p_app_name AND a.is_active = TRUE LIMIT 1;
ActiveAppIds(p_app_name) ==
    {a.app_id : a \in {x \in applications : x.app_name = p_app_name /\ x.is_active}}

\* The WHERE clause of the users lookup; a comparison with NULL is not true.
MatchesStableId(u, p_telegram_user_id) ==
    /\ p_telegram_user_id # NULL
    /\ u.telegram_user_id # NULL
    /\ u.telegram_user_id = p_telegram_user_id

\* Mutant of MatchesHandle: the comparison without "v_telegram_id IS NOT NULL",
\* with NULLs comparing equal (IS NOT DISTINCT FROM).
MatchesHandleNullEq(u, v_telegram_id) ==
    Lower(u.telegram_id) = Lower(v_telegram_id)

MatchesHandle(u, v_telegram_id) ==
    /\ v_telegram_id # NullHandle
    /\ u.telegram_id # NullHandle
    /\ Lower(u.telegram_id) = Lower(v_telegram_id)

\* Mutant of OrderRank: ORDER BY u.created_at alone.
OrderRankNone(u, p_telegram_user_id) == 1

\* ORDER BY CASE WHEN <stable id matches> THEN 0 ELSE 1 END, u.created_at ASC
OrderRank(u, p_telegram_user_id) == IF MatchesStableId(u, p_telegram_user_id) THEN 0 ELSE 1

SortsBefore(u, w, p_telegram_user_id) ==
    \/ OrderRank(u, p_telegram_user_id) < OrderRank(w, p_telegram_user_id)
    \/ /\ OrderRank(u, p_telegram_user_id) = OrderRank(w, p_telegram_user_id)
       /\ u.created_at < w.created_at

\* The rows LIMIT 1 may deliver: those no other candidate sorts before.  Rows
\* that tie in the sort key come in either order.
FirstUsers(p_telegram_user_id, v_telegram_id) ==
    LET cand == {u \in users : \/ MatchesStableId(u, p_telegram_user_id)
                               \/ MatchesHandle(u, v_telegram_id)}
    IN  {u \in cand : \A w \in cand : ~SortsBefore(w, u, p_telegram_user_id)}

\* Mutant of GrantIdsOf: the lookup without "AND ua.app_id = v_app_id".
GrantIdsOfAnyApp(v_user_id, v_app_id) ==
    {g.user_app_id : g \in {x \in user_applications : x.user_id = v_user_id}}

\* SELECT ua.user_app_id INTO v_user_app_id FROM user_applications ua
\* WHERE ua.user_id = v_user_id AND ua.app_id = v_app_id LIMIT 1;
GrantIdsOf(v_user_id, v_app_id) ==
    {g.user_app_id : g \in {x \in user_applications :
                               x.user_id = v_user_id /\ x.app_id = v_app_id}}

\* Mutant of DecideFor: the grant lookup ahead of the status tests.
DecideForGrantFirst(u, v_app_id) ==
    IF GrantIdsOf(u.user_id, v_app_id) # {}
    THEN {<<Row(u.user_id, g, v_app_id, "authorized", u.status, u.active_after)>> :
             g \in GrantIdsOf(u.user_id, v_app_id)}
    ELSE IF u.status = "blocked"
    THEN {<<Row(u.user_id, NULL, v_app_id, "blocked", u.status, u.active_after)>>}
    ELSE IF u.status = "suspended" /\ u.active_after # NULL /\ u.active_after > now
    THEN {<<Row(u.user_id, NULL, v_app_id, "suspended", u.status, u.active_after)>>}
    ELSE {<<Row(u.user_id, NULL, v_app_id, "no_app_access", u.status, u.active_after)>>}

\* Mutant of DecideFor: "v_active_after >= NOW()" for "v_active_after > NOW()".
DecideForInclusive(u, v_app_id) ==
    IF u.status = "blocked"
    THEN {<<Row(u.user_id, NULL, v_app_id, "blocked", u.status, u.active_after)>>}
    ELSE IF u.status = "suspended" /\ u.active_after # NULL /\ u.active_after >= now
    THEN {<<Row(u.user_id, NULL, v_app_id, "suspended", u.status, u.active_after)>>}
    ELSE IF GrantIdsOf(u.user_id, v_app_id) = {}
    THEN {<<Row(u.user_id, NULL, v_app_id, "no_app_access", u.status, u.active_after)>>}
    ELSE {<<Row(u.user_id, g, v_app_id, "authorized", u.status, u.active_after)>> :
             g \in GrantIdsOf(u.user_id, v_app_id)}

\* The function body after the users lookup delivered row u: the result set
\* the function returns.
DecideFor(u, v_app_id) ==
    IF u.status = "blocked"
    THEN {<<Row(u.user_id, NULL, v_app_id, "blocked", u.status, u.active_after)>>}
    ELSE IF u.status = "suspended" /\ u.active_after # NULL /\ u.active_after > now
    THEN {<<Row(u.user_id, NULL, v_app_id, "suspended", u.status, u.active_after)>>}
    ELSE IF GrantIdsOf(u.user_id, v_app_id) = {}
    THEN {<<Row(u.user_id, NULL, v_app_id, "no_app_access", u.status, u.active_after)>>}
    ELSE {<<Row(u.user_id, g, v_app_id, "authorized", u.status, u.active_after)>> :
             g \in GrantIdsOf(u.user_id, v_app_id)}

\* Mutant of ResolveUserAppAccess: the unknown_user branch without its RETURN;
\* the body runs on with v_user_id NULL and appends the no_app_access row.
ResolveUserAppAccessNoReturn(p_app_name, p_telegram_user_id, p_telegram_id) ==
    LET v_telegram_id == NormalizeHandle(p_telegram_id)
        apps == ActiveAppIds(p_app_name)
        first == FirstUsers(p_telegram_user_id, v_telegram_id)
    IN  IF apps = {}
        THEN {<<Row(NULL, NULL, NULL, "app_inactive", SqlNull, NULL)>>}
        ELSE IF first = {}
        THEN {<<Row(NULL, NULL, v_app_id, "unknown_user", SqlNull, NULL),
                Row(NULL, NULL, v_app_id, "no_app_access", SqlNull, NULL)>> :
                 v_app_id \in apps}
        ELSE UNION {DecideFor(u, v_app_id) : u \in first, v_app_id \in apps}

\* The result sets a call may return (more than one only when LIMIT 1 has a
\* tie to break).
ResolveUserAppAccess(p_app_name, p_telegram_user_id, p_telegram_id) ==
    LET v_telegram_id == NormalizeHandle(p_telegram_id)
        apps == ActiveAppIds(p_app_name)
        first == FirstUsers(p_telegram_user_id, v_telegram_id)
    IN  IF apps = {}
        THEN {<<Row(NULL, NULL, NULL, "app_inactive", SqlNull, NULL)>>}
        ELSE IF first = {}
        THEN {<<Row(NULL, NULL, v_app_id, "unknown_user", SqlNull, NULL)>> : v_app_id \in apps}
        ELSE UNION {DecideFor(u, v_app_id) : u \in first, v_app_id \in apps}

(***************************************************************************)
(* Administration of users and grants (the query reference's statements).  *)
(***************************************************************************)
MaxUsers == 2       \* users registered in a behaviour
MaxGrants == 1      \* grants created in a behaviour
SuspendInterval == 1    \* INTERVAL '7 days', in clock units

StoredHandles == {<<"@", "a">>, <<"@", "A">>}
StableIds == {1}
AppNames == {"deanna", "b4", "none"}

\* CHECK constraints of users.
UserChecksOK(u) ==
    /\ u.status \in {"active", "blocked", "suspended"}
    /\ (u.status = "suspended" /\ u.active_after # NULL) \/ u.status # "suspended"

\* telegram_id VARCHAR(33) UNIQUE and idx_users_telegram_user_id: the rows of
\* users that keep row u out.
UserConflicts(u) ==
    {w \in users :
        \/ w.user_id = u.user_id
        \/ u.telegram_id # NullHandle /\ w.telegram_id = u.telegram_id
        \/ u.telegram_user_id # NULL /\ w.telegram_user_id = u.telegram_user_id}

\* An administrator registers an account: an INSERT INTO users that leaves
\* status, active_after and created_at to their DEFAULTs.  A row without
\* telegram_id is an account registered by phone_number.
RegisterUser ==
    /\ ~resolved.called
    /\ ids.users < MaxUsers
    /\ \E tuid \in StableIds \cup {NULL}, handle \in StoredHandles \cup {NullHandle} :
         LET u == User(ids.users + 1, tuid, handle, "active", NULL, now) IN
         IF UserConflicts(u) # {}
         THEN UNCHANGED <<users, ids>>      \* unique_violation
         ELSE /\ users' = users \cup {u}
              /\ ids' = [ids EXCEPT !.users = @ + 1]
    /\ UNCHANGED <<applications, user_applications, chat_messages, now, last, calls,
                   resolved, aux>>

\* An UPDATE users SET status = ..., active_after = ... WHERE telegram_id = handle.
UpdateUserStatus(handle, status, after) ==
    LET old == {u \in users : u.telegram_id = handle}
        new == {[u EXCEPT !.status = status, !.active_after = after] : u \in old}
    IN  /\ ~resolved.called
        /\ IF \E u \in new : ~UserChecksOK(u)
           THEN UNCHANGED users             \* check_violation
           ELSE users' = (users \ old) \cup new
        /\ UNCHANGED <<applications, user_applications, chat_messages, now, ids, last,
                       calls, resolved, aux>>

\* "Suspend user for specific duration"
SuspendUser == \E h \in StoredHandles :
    UpdateUserStatus(h, "suspended", now + SuspendInterval)

\* "Block user permanently"
BlockUser == \E h \in StoredHandles : UpdateUserStatus(h, "blocked", NULL)

\* "Reactivate user"
ReactivateUser == \E h \in StoredHandles : UpdateUserStatus(h, "active", NULL)

\* "Grant User Access to Application": INSERT INTO user_applications
\* (user_id, app_id) VALUES ((SELECT user_id ...), (SELECT app_id ...));
GrantAccess ==
    /\ ~resolved.called
    /\ ids.user_applications < MaxGrants
    /\ \E h \in StoredHandles, name \in AppNames :
         LET us == {u.user_id : u \in {x \in users : x.telegram_id = h}}
             as == {a.app_id : a \in {x \in applications : x.app_name = name}}
         IN  IF us = {} \/ as = {}
             THEN UNCHANGED <<user_applications, ids>>      \* not_null_violation
             ELSE \E u \in us, a \in as :
                    IF GrantIdsOf(u, a) # {}
                    THEN UNCHANGED <<user_applications, ids>>   \* unique_violation
                    ELSE /\ user_applications' = user_applications \cup
                               {Grant(ids.user_applications + 1, u, a)}
                         /\ ids' = [ids EXCEPT !.user_applications = @ + 1]
    /\ UNCHANGED <<users, applications, chat_messages, now, last, calls, resolved, aux>>

(***************************************************************************)
(* AccessSpec: the router's "Resolve + Authorize User" node calls the      *)
(* function on the store the administration statements have produced; its *)
(* "Access Gate" node consumes the returned row.                           *)
(***************************************************************************)
StableIdArgs == {NULL, 1, 2}
HandleArgs == {NullHandle} \cup UNION {[1..n -> Chars] : n \in 0..MaxHandleLen}

\* Mutant of ResolveAccess: the call persists an expired suspension as active.
ResolveAccessWriteBack ==
    /\ ~resolved.called
    /\ \E app \in AppNames, tuid \in StableIdArgs, handle \in HandleArgs :
         \E rows \in ResolveUserAppAccess(app, tuid, handle) :
            /\ resolved' = [called |-> TRUE, app_name |-> app, telegram_user_id |-> tuid,
                            telegram_id |-> handle, rows |-> rows]
            /\ users' = {IF /\ u.user_id = rows[1].user_id
                            /\ u.status = "suspended"
                            /\ u.active_after <= now
                         THEN [u EXCEPT !.status = "active", !.active_after = NULL]
                         ELSE u : u \in users}
    /\ UNCHANGED <<applications, user_applications, chat_messages, now, ids, last, calls, aux>>

\* SELECT * FROM resolve_user_app_access($app, $1::bigint, $2::text);
ResolveAccess ==
    /\ ~resolved.called
    /\ \E app \in AppNames, tuid \in StableIdArgs, handle \in HandleArgs :
         \E rows \in ResolveUserAppAccess(app, tuid, handle) :
            resolved' = [called |-> TRUE, app_name |-> app, telegram_user_id |-> tuid,
                         telegram_id |-> handle, rows |-> rows]
    /\ UNCHANGED <<users, applications, user_applications, chat_messages, now, ids, last,
                   calls, aux>>

\* Access Gate (If): continue on decision = 'authorized', deny otherwise.
AccessGate ==
    /\ resolved.called
    /\ resolved' = NoCall
    /\ UNCHANGED <<users, applications, user_applications, chat_messages, now, ids, last,
                   calls, aux>>

AccessInit ==
    /\ users = {}
    /\ applications \in {{App(1, "deanna", d), App(2, "b4", TRUE)} : d \in BOOLEAN}
    /\ user_applications = {}
    /\ chat_messages = {}
    /\ now = 1
    /\ ids = [users |-> 0, applications |-> 2, user_applications |-> 0,
              chat_messages |-> 0]
    /\ last = [op |-> "none", result |-> "none", id |-> NULL]
    /\ calls = [c \in Callers |-> Idle]
    /\ resolved = NoCall
    /\ AuxUnused

AccessNext ==
    \/ RegisterUser
    \/ SuspendUser
    \/ BlockUser
    \/ ReactivateUser
    \/ GrantAccess
    \/ RevokeAccess
    \/ Tick
    \/ ResolveAccess
    \/ AccessGate

AccessSpec == AccessInit /\ [][AccessNext]_vars

(***************************************************************************)
(* WriteSpec: the users table under arbitrary writes.  Any INSERT INTO     *)
(* users and any UPDATE users SET status, active_after is attempted; the   *)
(* table's constraints decide which are stored.  The resolver is called on *)
(* the resulting store.                                                    *)
(***************************************************************************)
UserStatuses == {"active", "blocked", "suspended"}
ActiveAfters == {NULL, 2}

\* INSERT INTO users (telegram_user_id, telegram_id, status, active_after, ...)
InsertUser ==
    /\ ~resolved.called
    /\ ids.users < MaxUsers
    /\ \E tuid \in StableIds \cup {NULL}, handle \in StoredHandles \cup {NullHandle},
          status \in UserStatuses, after \in ActiveAfters :
         LET u == User(ids.users + 1, tuid, handle, status, after, now) IN
         IF ~UserChecksOK(u) \/ UserConflicts(u) # {}
         THEN UNCHANGED <<users, ids>>      \* check_violation, unique_violation
         ELSE /\ users' = users \cup {u}
              /\ ids' = [ids EXCEPT !.users = @ + 1]
    /\ UNCHANGED <<applications, user_applications, chat_messages, now, last, calls,
                   resolved, aux>>

\* UPDATE users SET status = ..., active_after = ... WHERE telegram_id = ...
UpdateUser ==
    \E h \in StoredHandles, status \in UserStatuses, after \in ActiveAfters :
        UpdateUserStatus(h, status, after)

WriteInit ==
    /\ users = {}
    /\ applications = {App(1, "deanna", TRUE), App(2, "b4", FALSE)}
    /\ user_applications = {}
    /\ chat_messages = {}
    /\ now = 1
    /\ ids = [users |-> 0, applications |-> 2, user_applications |-> 0,
              chat_messages |-> 0]
    /\ last = [op |-> "none", result |-> "none", id |-> NULL]
    /\ calls = [c \in Callers |-> Idle]
    /\ resolved = NoCall
    /\ AuxUnused

WriteNext ==
    \/ InsertUser
    \/ UpdateUser
    \/ GrantAccess
    \/ ResolveAccess
    \/ AccessGate

WriteSpec == WriteInit /\ [][WriteNext]_vars

(***************************************************************************)
(* CascadeSpec: the message intake while grants, accounts and applications *)
(* are removed; the ON DELETE CASCADE foreign keys carry each removal on.  *)
(***************************************************************************)
\* The grants and messages left once the grants in gone are deleted.
GrantsWithout(gone) == user_applications \ gone
MessagesWithout(gone) ==
    {r \in chat_messages : r.user_app_id \notin {g.user_app_id : g \in gone}}

\* DELETE FROM users: fk_user_applications_user_id cascades to the account's
\* grants, fk_chat_messages_user_app_id to their messages.
DeleteUser ==
    \E u \in users :
        LET gone == {g \in user_applications : g.user_id = u.user_id} IN
        /\ users' = users \ {u}
        /\ user_applications' = GrantsWithout(gone)
        /\ chat_messages' = MessagesWithout(gone)
        /\ UNCHANGED <<applications, now, ids, last, calls, resolved, aux>>

\* DELETE FROM applications: fk_user_applications_app_id cascades likewise.
DeleteApplication ==
    \E a \in applications :
        LET gone == {g \in user_applications : g.app_id = a.app_id} IN
        /\ applications' = applications \ {a}
        /\ user_applications' = GrantsWithout(gone)
        /\ chat_messages' = MessagesWithout(gone)
        /\ UNCHANGED <<users, now, ids, last, calls, resolved, aux>>

CascadeInit ==
    /\ users = {User(1, 1, <<"@", "a">>, "active", NULL, 1),
                User(2, NULL, <<"@", "b">>, "active", NULL, 1)}
    /\ applications = {App(1, "deanna", TRUE), App(2, "b4", TRUE)}
    /\ user_applications = {Grant(1, 1, 1), Grant(2, 2, 1), Grant(3, 1, 2)}
    /\ chat_messages = {}
    /\ now = 1
    /\ ids = [users |-> 2, applications |-> 2, user_applications |-> 3,
              chat_messages |-> 0]
    /\ last = [op |-> "none", result |-> "none", id |-> NULL]
    /\ calls = [c \in Callers |-> Idle]
    /\ resolved = NoCall
    /\ AuxUnused

CascadeNext ==
    \/ RecordIfNew
    \/ Complete
    \/ RevokeAccess
    \/ DeleteUser
    \/ DeleteApplication

CascadeSpec == CascadeInit /\ [][CascadeNext]_vars

(***************************************************************************)
(* RouterSpec: executions of the Deanna Router workflow, one per webhook   *)
(* delivery, interleaved at their database nodes with each other and with  *)
(* the revocation of grants.  calls[c] holds execution c's position.       *)
(***************************************************************************)
\* Telegram updates: msg.from.id, msg.from.username (optional), msg.message_id.
FromIds == {1, 3}
Usernames == {NullHandle, <<"a">>, <<"b">>}
UpdateMessageIds == {"123", "124"}
Updates == [from_id : FromIds, username : Usernames, message_id : UpdateMessageIds]

NoRow == Row(NULL, NULL, NULL, "none", SqlNull, NULL)
Waiting == [stage |-> "trigger", update |-> [from_id |-> NULL, username |-> NullHandle,
                                             message_id |-> Absent],
            row |-> NoRow, id |-> NULL]

\* "Normalize Payload": telegram_id: msg.from.username ? `@${...}` : null;
\* platform: 'telegram'; message_id: msg.message_id; text: msg.text || ''.
NormalizedTelegramId(update) ==
    IF update.username = NullHandle THEN NullHandle ELSE <<"@">> \o update.username
NormalizedPayload(update) == [platform |-> "telegram", message_id |-> update.message_id]
NormalizedText == "hi"

\* Telegram Trigger -> Normalize Payload -> Resolve + Authorize User ->
\* Access Gate: the execution goes on to the insert only when the decision
\* is authorized, else to Send Deny.
ResolveAndGate(c) ==
    /\ calls[c].stage = "trigger"
    /\ \E update \in Updates :
         \E rows \in ResolveUserAppAccess("deanna", update.from_id,
                                          NormalizedTelegramId(update)) :
            calls' = [calls EXCEPT ![c] =
                        [stage |-> IF rows[1].decision = "authorized"
                                   THEN "insert_pending" ELSE "send_deny",
                         update |-> update, row |-> rows[1], id |-> NULL]]
    /\ UNCHANGED <<users, applications, user_applications, chat_messages, now, ids,
                   last, resolved, aux>>

\* Insert Pending chat_messages, then the idempotency rule: no row returned
\* stops the workflow before Fast Brain; a returned row starts Fast Brain.
InsertPending(c) ==
    /\ calls[c].stage = "insert_pending"
    /\ LET o == StmtInsertPending(calls[c].row.user_app_id, NormalizedText,
                                  NormalizedPayload(calls[c].update)) IN
         /\ chat_messages' = o.rows
         /\ ids' = IF o.result = "fresh"
                      THEN [ids EXCEPT !.chat_messages = @ + 1] ELSE ids
         /\ calls' = [calls EXCEPT ![c].id = o.id,
                                   ![c].stage = CASE o.result = "fresh" -> "fast_brain"
                                                  [] o.result = "duplicate" -> "stopped"
                                                  [] OTHER -> "error"]
    /\ UNCHANGED <<users, applications, user_applications, now, last, resolved, aux>>

\* Execute Fast Brain -> Format Response -> Send Telegram Response ->
\* Complete chat_messages.
CompleteMessage(c) ==
    /\ calls[c].stage = "fast_brain"
    /\ \E text \in ResponseTexts :
         chat_messages' = StmtComplete(calls[c].id, text).rows
    /\ calls' = [calls EXCEPT ![c].stage = "completed"]
    /\ UNCHANGED <<users, applications, user_applications, now, ids, last, resolved, aux>>

RouterInit ==
    /\ users = {User(1, 1, <<"@", "a">>, "active", NULL, 1),
                User(2, NULL, <<"@", "b">>, "active", NULL, 1)}
    /\ applications = {App(1, "deanna", TRUE), App(2, "b4", TRUE)}
    /\ user_applications = {Grant(1, 1, 1), Grant(2, 2, 1)}
    /\ chat_messages = {}
    /\ now = 1
    /\ ids = [users |-> 2, applications |-> 2, user_applications |-> 2,
              chat_messages |-> 0]
    /\ last = [op |-> "none", result |-> "none", id |-> NULL]
    /\ calls = [c \in Callers |-> Waiting]
    /\ resolved = NoCall
    /\ AuxUnused

RouterNext ==
    \/ \E c \in Callers : ResolveAndGate(c)
    \/ \E c \in Callers : InsertPending(c)
    \/ \E c \in Callers : CompleteMessage(c)
    \/ RevokeAccess

RouterSpec == RouterInit /\ [][RouterNext]_vars

(***************************************************************************)
(* HandleSpec: the resolver called with every handle on each of a family   *)
(* of stores (handles stored in either case, created at the same or at     *)
(* different times, accounts without handle).                              *)
(***************************************************************************)
HandleAccounts ==
    {User(1, 1, <<"@", "a">>, "active", NULL, 1),
     User(2, NULL, <<"@", "A">>, "blocked", NULL, 2),
     User(3, NULL, NullHandle, "active", NULL, 1),
     User(4, NULL, <<"@", "A">>, "suspended", 2, 1)}

HandleInit ==
    /\ users \in {us \in SUBSET HandleAccounts :
                     \A u \in us : {w \in us : w.telegram_id = u.telegram_id} = {u}}
    /\ applications = {App(1, "deanna", TRUE), App(2, "b4", FALSE)}
    /\ user_applications = {Grant(1, 1, 1)}
    /\ chat_messages = {}
    /\ now = 1
    /\ ids = [users |-> 4, applications |-> 2, user_applications |-> 1,
              chat_messages |-> 0]
    /\ last = [op |-> "none", result |-> "none", id |-> NULL]
    /\ calls = [c \in Callers |-> Idle]
    /\ resolved = NoCall
    /\ AuxUnused

HandleNext ==
    \/ ResolveAccess
    \/ AccessGate

HandleSpec == HandleInit /\ [][HandleNext]_vars

(***************************************************************************)
(* SessionSpec: the Claude session wrapper (scripts/session.sh).  One      *)
(* action is one run of the script; claude's exit status is the            *)
(* environment's choice.  session.file is $SESSION_FILE, session.clock is  *)
(* date +%s, session.next counts the ids uuidgen has produced, and         *)
(* session.forgotten collects the ids a /reset has removed.                *)
(***************************************************************************)
TTL_SEC == 43200
MaxSessionIds == 3
MaxTicks == 3
ClockSteps == {1, TTL_SEC - 1}

\* "$*": the arguments joined by spaces, kept as the sequence of words.
Prompts == {<<"/reset">>, <<"/reset", "now">>, <<"/task", "x">>, <<"/new", "x">>,
            <<"/task">>, <<"hi">>}

\* [[ "$PROMPT" == "/reset" ]]
IsReset(prompt) == prompt = <<"/reset">>

\* [[ "$PROMPT" == "/task "* || "$PROMPT" == "/new "* ]]
StartsFresh(prompt) == Len(prompt) >= 2 /\ Head(prompt) \in {"/task", "/new"}

\* PROMPT="${PROMPT#"/task "}"; PROMPT="${PROMPT#"/new "}"
StripPrefix(prompt, word) ==
    IF Len(prompt) >= 2 /\ Head(prompt) = word THEN Tail(prompt) ELSE prompt
StrippedPrompt(prompt) == StripPrefix(StripPrefix(prompt, "/task"), "/new")

NoFile == [exists |-> FALSE, content |-> 0, mtime |-> 0]

\* echo "$SESSION_ID" >"$SESSION_FILE"
Written(id, clock) == [exists |-> TRUE, content |-> id, mtime |-> clock]

\* touch "$SESSION_FILE"
Touched(file, clock) == [file EXCEPT !.mtime = clock]

Invocation(mode, id, prompt, status) ==
    [mode |-> mode, id |-> id, prompt |-> prompt, status |-> status]

\* Mutant of ResolveSession: (( AGE <= TTL_SEC )).
ResolveSessionInclusive(prompt, s) ==
    IF StartsFresh(prompt)
    THEN [mode |-> "new", id |-> s.next + 1, prompt |-> StrippedPrompt(prompt),
          file |-> Written(s.next + 1, s.clock), next |-> s.next + 1]
    ELSE IF s.file.exists /\ s.clock - s.file.mtime <= TTL_SEC
    THEN [mode |-> "resume", id |-> s.file.content, prompt |-> prompt,
          file |-> Touched(s.file, s.clock), next |-> s.next]
    ELSE [mode |-> "new", id |-> s.next + 1, prompt |-> prompt,
          file |-> Written(s.next + 1, s.clock), next |-> s.next + 1]

\* 5. Session resolution: the mode, the session id, the prompt to run, and
\* the session file and the ids used after the block.
ResolveSession(prompt, s) ==
    IF StartsFresh(prompt)
    THEN [mode |-> "new", id |-> s.next + 1, prompt |-> StrippedPrompt(prompt),
          file |-> Written(s.next + 1, s.clock), next |-> s.next + 1]
    ELSE IF s.file.exists /\ s.clock - s.file.mtime < TTL_SEC
    THEN [mode |-> "resume", id |-> s.file.content, prompt |-> prompt,
          file |-> Touched(s.file, s.clock), next |-> s.next]
    ELSE [mode |-> "new", id |-> s.next + 1, prompt |-> prompt,
          file |-> Written(s.next + 1, s.clock), next |-> s.next + 1]

\* What claude may answer: a new session runs or fails; a resume runs, finds
\* the session "already in use", or fails otherwise (session invalid).
NewStatuses == {"ok", "failed"}
ResumeStatuses == {"ok", "busy", "invalid"}

Ran(r, clock, invocations, exit) ==
    [file |-> r.file, next |-> r.next, invocations |-> invocations, exit |-> exit]

\* Mutant of Execute: the recovery without echo "$SESSION_ID" >"$SESSION_FILE".
ExecuteRecoveryUnwritten(r, clock) ==
    IF r.mode = "new"
    THEN {Ran(r, clock, <<Invocation("new", r.id, r.prompt, st)>>, st) : st \in NewStatuses}
    ELSE {Ran(r, clock, <<Invocation("resume", r.id, r.prompt, "ok")>>, "ok")}
         \cup {Ran(r, clock, <<Invocation("resume", r.id, r.prompt, "busy"),
                               Invocation("resume", r.id, r.prompt, st)>>, st) :
                  st \in NewStatuses}
         \cup {[file |-> NoFile, next |-> r.next + 1,
                invocations |-> <<Invocation("resume", r.id, r.prompt, "invalid"),
                                  Invocation("new", r.next + 1, r.prompt, st)>>,
                exit |-> st] : st \in NewStatuses}

\* 6. Execute (with busy-session handling): the runs the block may take.
\* Under set -e a failing run_new, and a failing second run_resume, end the
\* script with that status.
Execute(r, clock) ==
    IF r.mode = "new"
    THEN {Ran(r, clock, <<Invocation("new", r.id, r.prompt, st)>>, st) : st \in NewStatuses}
    ELSE {Ran(r, clock, <<Invocation("resume", r.id, r.prompt, "ok")>>, "ok")}
         \cup {Ran(r, clock, <<Invocation("resume", r.id, r.prompt, "busy"),
                               Invocation("resume", r.id, r.prompt, st)>>, st) :
                  st \in NewStatuses}
         \cup {[file |-> Written(r.next + 1, clock), next |-> r.next + 1,
                invocations |-> <<Invocation("resume", r.id, r.prompt, "invalid"),
                                  Invocation("new", r.next + 1, r.prompt, st)>>,
                exit |-> st] : st \in NewStatuses}

LastRun(kind, flip, invocations, exit) ==
    [kind |-> kind, flip |-> flip, invocations |-> invocations, exit |-> exit]

sessionFrame == <<base, slow_brain, pulse, subgraph, dns>>

\* Mutant of ResetSession: the reset without rm -f "$SESSION_FILE".
ResetSessionKeepsFile ==
    /\ session' = [session EXCEPT
                     !.run = LastRun("reset", 1 - session.run.flip, <<>>, "ok")]
    /\ UNCHANGED sessionFrame

\* 4. Reset: session.sh /reset
ResetSession ==
    /\ session' = [session EXCEPT
                     !.file = NoFile,
                     !.forgotten = IF session.file.exists
                                   THEN @ \cup {session.file.content} ELSE @,
                     !.run = LastRun("reset", 1 - session.run.flip, <<>>, "ok")]
    /\ UNCHANGED sessionFrame

\* session.sh <prompt>, for every prompt but /reset.
RunSession ==
    /\ session.next + 2 <= MaxSessionIds
    /\ \E prompt \in {p \in Prompts : ~IsReset(p)} :
         \E e \in Execute(ResolveSession(prompt, session), session.clock) :
            session' = [session EXCEPT
                          !.file = e.file,
                          !.next = e.next,
                          !.run = LastRun(IF StartsFresh(prompt) THEN "fresh" ELSE "prompt",
                                          1 - session.run.flip, e.invocations, e.exit)]
    /\ UNCHANGED sessionFrame

\* Time passes between runs.
SessionTick ==
    /\ session.ticks < MaxTicks
    /\ \E d \in ClockSteps :
         session' = [session EXCEPT !.clock = @ + d, !.ticks = @ + 1]
    /\ UNCHANGED sessionFrame

BaseIdle ==
    /\ users = {}
    /\ applications = {}
    /\ user_applications = {}
    /\ chat_messages = {}
    /\ now = 1
    /\ ids = [users |-> 0, applications |-> 0, user_applications |-> 0,
              chat_messages |-> 0]
    /\ last = [op |-> "none", result |-> "none", id |-> NULL]
    /\ calls = [c \in Callers |-> Idle]
    /\ resolved = NoCall

SessionInit ==
    /\ BaseIdle
    /\ session = [file |-> NoFile, clock |-> 0, ticks |-> 0, next |-> 0,
                  forgotten |-> {}, run |-> LastRun("none", 0, <<>>, "ok")]
    /\ slow_brain = Unused
    /\ pulse = Unused
    /\ subgraph = Unused
    /\ dns = Unused

SessionNext ==
    \/ ResetSession
    \/ RunSession
    \/ SessionTick

SessionSpec == SessionInit /\ [][SessionNext]_vars

(***************************************************************************)
(* SlowBrainSpec: the Deanna Slow Brain workflow (plan 2.4).  Every node   *)
(* that talks to Redis is one step of a run; runs of the workflow          *)
(* interleave.  slow_brain.lock is slow_brain_lock:deanna (0 when the key  *)
(* is absent, else the execution that set it), queue, processing and dlq   *)
(* are the three lists (head first), done is the set of task ids with a    *)
(* slow_brain_done key.  reflections and episodes count, up to two, what   *)
(* was generated and stored for a task id; skipped and expired record the  *)
(* task ids skipped for too few turns and those whose done key ran out.    *)
(***************************************************************************)
MaxRetries == 5
NumRuns == 2
MaxTasks == 2
MaxQueued == 2

Runs == 1..NumRuns
TaskIds == 1..MaxTasks
NoTask == [task_id |-> 0, retry_count |-> 0]

\* Queue Slow Brain (Fast Brain): the task payload, retry_count: 0.
NewTask(t) == [task_id |-> t, retry_count |-> 0]

\* LPUSH key value
LPush(list, v) == <<v>> \o list

\* LREM key 1 value: removes the first element equal to value.
RECURSIVE LRem1(_, _)
LRem1(list, v) ==
    IF list = <<>> THEN <<>>
    ELSE IF Head(list) = v THEN Tail(list)
    ELSE <<Head(list)>> \o LRem1(Tail(list), v)

\* The last element of a list, and the list without it (RPOP).
Last(list) == list[Len(list)]
Front(list) == SubSeq(list, 1, Len(list) - 1)

Count2(n) == IF n < 2 THEN n + 1 ELSE 2

RunAt(r, pc) == slow_brain.runs[r].pc = pc
TaskOf(r) == slow_brain.runs[r].task
Goto(r, pc, task) == [slow_brain.runs EXCEPT ![r] = [pc |-> pc, task |-> task]]

slowBrainFrame == <<base, session, pulse, subgraph, dns>>

\* Queue Slow Brain (Redis): LPUSH slow_brain_queue:deanna, from Fast Brain;
\* the same task may be delivered again.
QueueSlowBrain ==
    /\ slow_brain.queued < MaxQueued
    /\ \E t \in TaskIds :
         slow_brain' = [slow_brain EXCEPT !.queue = LPush(@, NewTask(t)),
                                           !.queued = @ + 1]
    /\ UNCHANGED slowBrainFrame

\* Schedule Trigger, Acquire Run Lock: SET slow_brain_lock:deanna
\* <execution id> NX EX 300; Lock Acquired? No: Stop.
AcquireRunLock(r) ==
    /\ RunAt(r, "idle") \/ RunAt(r, "stopped")
    /\ slow_brain' = IF slow_brain.lock = 0
                     THEN [slow_brain EXCEPT !.lock = r, !.runs = Goto(r, "claim", NoTask)]
                     ELSE [slow_brain EXCEPT !.runs = Goto(r, "stopped", NoTask)]
    /\ slow_brain' # slow_brain
    /\ UNCHANGED slowBrainFrame

\* Claim Task: RPOPLPUSH queue -> processing; Task Claimed? No: Release Lock.
ClaimTask(r) ==
    /\ RunAt(r, "claim")
    /\ slow_brain' =
          IF slow_brain.queue = <<>>
          THEN [slow_brain EXCEPT !.runs = Goto(r, "release", NoTask)]
          ELSE [slow_brain EXCEPT
                  !.queue = Front(@),
                  !.processing = LPush(@, Last(slow_brain.queue)),
                  !.runs = Goto(r, "guard", Last(slow_brain.queue))]
    /\ UNCHANGED slowBrainFrame

\* Mutant of IdempotencyGuard: SET without NX.
IdempotencyGuardOverwrites(r) ==
    /\ RunAt(r, "guard")
    /\ slow_brain' = [slow_brain EXCEPT !.done = @ \cup {TaskOf(r).task_id},
                                         !.runs = Goto(r, "load", TaskOf(r))]
    /\ UNCHANGED slowBrainFrame

\* Idempotency Guard: SET slow_brain_done:deanna:<task_id> 1 NX EX 604800;
\* if SET fails the task is already processed: ACK and continue.
IdempotencyGuard(r) ==
    /\ RunAt(r, "guard")
    /\ slow_brain' =
          IF TaskOf(r).task_id \in slow_brain.done
          THEN [slow_brain EXCEPT !.runs = Goto(r, "ack", TaskOf(r))]
          ELSE [slow_brain EXCEPT !.done = @ \cup {TaskOf(r).task_id},
                                   !.runs = Goto(r, "load", TaskOf(r))]
    /\ UNCHANGED slowBrainFrame

\* Load Session Context, Get Turns Since Checkpoint, Enough Turns?
\* Fewer than 3 turns: Skip + ACK.
EnoughTurns(r) ==
    /\ RunAt(r, "load")
    /\ \/ slow_brain' = [slow_brain EXCEPT !.runs = Goto(r, "reflect", TaskOf(r))]
       \/ slow_brain' = [slow_brain EXCEPT !.skipped = @ \cup {TaskOf(r).task_id},
                                            !.runs = Goto(r, "ack", TaskOf(r))]
    /\ UNCHANGED slowBrainFrame

\* Generate Reflection, Validate Reflection Structure.
GenerateReflection(r) ==
    /\ RunAt(r, "reflect")
    /\ \E next \in {"store", "failed"} :
         slow_brain' = [slow_brain EXCEPT
                          !.reflections[TaskOf(r).task_id] = Count2(@),
                          !.runs = Goto(r, next, TaskOf(r))]
    /\ UNCHANGED slowBrainFrame

\* Store Episode (PostgreSQL INSERT).
StoreEpisode(r) ==
    /\ RunAt(r, "store")
    /\ \/ slow_brain' = [slow_brain EXCEPT
                           !.episodes[TaskOf(r).task_id] = Count2(@),
                           !.runs = Goto(r, "checkpoint", TaskOf(r))]
       \/ slow_brain' = [slow_brain EXCEPT !.runs = Goto(r, "failed", TaskOf(r))]
    /\ UNCHANGED slowBrainFrame

\* Generate Embedding, Upsert to Qdrant, Update Session Checkpoint:
\* Success: ACK Task; Failure: Retry/DLQ.
UpdateSessionCheckpoint(r) ==
    /\ RunAt(r, "checkpoint")
    /\ \E next \in {"ack", "failed"} :
         slow_brain' = [slow_brain EXCEPT !.runs = Goto(r, next, TaskOf(r))]
    /\ UNCHANGED slowBrainFrame

\* ACK Task: LREM slow_brain_processing:deanna 1 <raw_claimed_task>; Claim Next.
AckTask(r) ==
    /\ RunAt(r, "ack")
    /\ slow_brain' = [slow_brain EXCEPT !.processing = LRem1(@, TaskOf(r)),
                                         !.runs = Goto(r, "claim", NoTask)]
    /\ UNCHANGED slowBrainFrame

\* Retry/DLQ on Failure, retry_count < 5: increment retry_count, LPUSH the
\* queue, ACK the original from the processing list.
RetryTask(r) ==
    /\ RunAt(r, "failed")
    /\ TaskOf(r).retry_count < MaxRetries
    /\ slow_brain' = [slow_brain EXCEPT
                        !.queue = LPush(@, [TaskOf(r) EXCEPT !.retry_count = @ + 1]),
                        !.processing = LRem1(@, TaskOf(r)),
                        !.runs = Goto(r, "claim", NoTask)]
    /\ UNCHANGED slowBrainFrame

\* Retry/DLQ on Failure, retry_count >= 5: LPUSH the dead-letter queue, ACK
\* the original from the processing list.
DeadLetterTask(r) ==
    /\ RunAt(r, "failed")
    /\ TaskOf(r).retry_count >= MaxRetries
    /\ slow_brain' = [slow_brain EXCEPT
                        !.dlq = LPush(@, TaskOf(r)),
                        !.processing = LRem1(@, TaskOf(r)),
                        !.runs = Goto(r, "claim", NoTask)]
    /\ UNCHANGED slowBrainFrame

\* Release Run Lock: DEL slow_brain_lock:deanna.
ReleaseRunLock(r) ==
    /\ RunAt(r, "release")
    /\ slow_brain' = [slow_brain EXCEPT !.lock = 0, !.runs = Goto(r, "idle", NoTask)]
    /\ UNCHANGED slowBrainFrame

\* The lock's TTL of 300 seconds runs out, whatever its holder is doing.
ExpireLock ==
    /\ slow_brain.lock # 0
    /\ slow_brain' = [slow_brain EXCEPT !.lock = 0]
    /\ UNCHANGED slowBrainFrame

\* A done key's TTL of 604800 seconds runs out.
ExpireDone ==
    /\ \E t \in slow_brain.done :
         slow_brain' = [slow_brain EXCEPT !.done = @ \ {t}, !.expired = @ \cup {t}]
    /\ UNCHANGED slowBrainFrame

SlowBrainInit ==
    /\ BaseIdle
    /\ slow_brain = [lock |-> 0, queue |-> <<>>, processing |-> <<>>, dlq |-> <<>>,
                     done |-> {}, queued |-> 0,
                     runs |-> [r \in Runs |-> [pc |-> "idle", task |-> NoTask]],
                     reflections |-> [t \in TaskIds |-> 0],
                     episodes |-> [t \in TaskIds |-> 0],
                     skipped |-> {}, expired |-> {}]
    /\ session = Unused
    /\ pulse = Unused
    /\ subgraph = Unused
    /\ dns = Unused

SlowBrainNext ==
    \/ QueueSlowBrain
    \/ ExpireLock
    \/ ExpireDone
    \/ \E r \in Runs :
         \/ AcquireRunLock(r)
         \/ ClaimTask(r)
         \/ IdempotencyGuard(r)
         \/ EnoughTurns(r)
         \/ GenerateReflection(r)
         \/ StoreEpisode(r)
         \/ UpdateSessionCheckpoint(r)
         \/ AckTask(r)
         \/ RetryTask(r)
         \/ DeadLetterTask(r)
         \/ ReleaseRunLock(r)

SlowBrainSpec == SlowBrainInit /\ [][SlowBrainNext]_vars

(***************************************************************************)
(* PulseSpec: the Pulse & Decay node (n8n Function JS).  A confidence is   *)
(* an exact fraction: the integer c stands for c / One, and the inputs are *)
(* the multiples of 1 / ConfidenceSteps, so that the products by 0.7 and   *)
(* by 0.95 are integers.  Times are seconds relative to now.               *)
(***************************************************************************)
ConfidenceSteps == 20
MaxMsgCount == 6

One == ConfidenceSteps * 200
Confidences == {k * 200 : k \in 0..ConfidenceSteps}
PulseNow == 0

\* An optional value: <<>> when missing (undefined, or an Invalid Date),
\* <<v>> when present.
Missing == <<>>
Some(v) == <<v>>

\* c * (num / den)
Scaled(c, num, den) == (c * num) \div den

\* affect.affect.confidence < 0.3, confidence >= 0.3
BelowThreshold(c) == 10 * c < 3 * One

\* a % b === 0 in JavaScript: a % 0 is NaN.
JsModIsZero(a, b) == b # 0 /\ a % b = 0

\* new Date(x) < now: false for an Invalid Date.
DateBefore(d, t) == d # Missing /\ d[1] < t

\* The affect object written when redis_affect has no affect.
InitialAffect ==
    [label |-> "neutral", confidence |-> 0, markers |-> <<>>,
     decay_at |-> Some(PulseNow + 30 * 60), pulse |-> Missing]

\* Rule 1: Temporal Decay
TemporalDecay(a) ==
    IF DateBefore(a.decay_at, PulseNow)
    THEN [a EXCEPT !.label = "neutral", !.confidence = 0, !.markers = <<"expired_decay">>]
    ELSE a

\* Number(affect.affect?.pulse?.every_n_messages ?? 3)
PulseEvery(a) == IF a.pulse = Missing THEN 3 ELSE a.pulse[1].every_n_messages

\* Rule 2: Pulse decay every N messages
PulseDecay(a, msgCount, lastLen) ==
    IF msgCount > 0 /\ JsModIsZero(msgCount, PulseEvery(a))
    THEN LET short == IF lastLen < 10 THEN Scaled(a.confidence, 7, 10) ELSE a.confidence
             gentle == Scaled(short, 95, 100)
         IN [a EXCEPT !.confidence = gentle,
                      !.pulse = Some([every_n_messages |-> PulseEvery(a),
                                      still_valid |-> ~BelowThreshold(gentle)])]
    ELSE a

\* Rule 3: Forced Flush
ForcedFlush(a) ==
    IF BelowThreshold(a.confidence)
    THEN [a EXCEPT !.label = "neutral", !.confidence = 0,
                   !.markers = Append(@, "forced_flush_low_conf")]
    ELSE a

\* Mutant of PulseAndDecayNode: the node without Rule 3.
PulseAndDecayNodeNoFlush(item) ==
    IF item.affect = Missing
    THEN InitialAffect
    ELSE PulseDecay(TemporalDecay(item.affect[1]), item.msg_count, item.last_len)

\* The node: item.json.redis_affect.affect after it, from redis_affect,
\* session.msg_count and the trimmed length of last_message.
PulseAndDecayNode(item) ==
    IF item.affect = Missing
    THEN InitialAffect
    ELSE ForcedFlush(PulseDecay(TemporalDecay(item.affect[1]), item.msg_count,
                                item.last_len))

\* The stored affects, message counts and last messages the node is run on.
StoredAffects ==
    [label : {"neutral", "angry"}, confidence : Confidences, markers : {<<>>},
     decay_at : {Missing, Some(PulseNow - 1), Some(PulseNow + 1)},
     pulse : {Missing} \cup {Some(q) : q \in [every_n_messages : {0, 2}, still_valid : {TRUE}]}]
PulseItems ==
    [affect : {Missing} \cup {Some(a) : a \in StoredAffects},
     msg_count : 0..MaxMsgCount, last_len : {9, 10}]

pulseFrame == <<base, session, slow_brain, subgraph, dns>>

\* One execution of the node.
PulseAndDecay ==
    /\ pulse.stage = "input"
    /\ pulse' = [stage |-> "output", item |-> pulse.item,
                 affect |-> Some(PulseAndDecayNode(pulse.item))]
    /\ UNCHANGED pulseFrame

PulseInit ==
    /\ BaseIdle
    /\ \E item \in PulseItems : pulse = [stage |-> "input", item |-> item, affect |-> Missing]
    /\ session = Unused
    /\ slow_brain = Unused
    /\ subgraph = Unused
    /\ dns = Unused

PulseNext == PulseAndDecay

PulseSpec == PulseInit /\ [][PulseNext]_vars

(***************************************************************************)
(* SubgraphSpec: get_local_subgraph over the relations table.  A row's     *)
(* position in subgraph.relations is its rel_id and its updated_at (rows   *)
(* are written one after the other); confidences are in tenths; times are  *)
(* integers and NOW() is subgraph.now.                                     *)
(***************************************************************************)
MaxRelations == 2

CriticalPredicates ==
    {"ALLERGY", "SAFETY_BOUNDARY", "MEDICATION", "INTOLERANCE", "EMERGENCY_CONTACT"}

\* The rows of relations the table is filled with: chk_relations_scope_valid
\* and chk_relations_agent_scope hold of each.
RelationRows ==
    {r \in [user_id : {1, 2}, ends : {<<1, 3>>, <<3, 1>>, <<2, 3>>},
            scope : {"global", "agent"}, agent_id : {SqlNull, "deanna", "b4"},
            predicate : {"ALLERGY", "LIKES"}, confidence : {7, 8},
            valid_to : {NULL, 1, 2, 3}] :
        /\ r.scope = "agent" => r.agent_id # SqlNull
        /\ r.scope = "global" => r.agent_id = SqlNull}

subject_id(r) == r.ends[1]
object_id(r) == r.ends[2]

\* CASE ... END as priority_rank
PriorityRank(r, p_agent_id) ==
    IF r.scope = "agent" /\ r.agent_id = p_agent_id THEN 1
    ELSE IF r.predicate \in CriticalPredicates THEN 2
    ELSE IF r.scope = "global" /\ r.confidence >= 8 THEN 3
    ELSE 4

\* WHERE r.user_id = p_user_id AND (subject or object = ANY(seeds)) AND
\* (global OR agent-scoped to p_agent_id) AND (valid_to IS NULL OR > NOW())
SubgraphWhere(r, p_user_id, p_agent_id, p_seed_entity_ids, t) ==
    /\ r.user_id = p_user_id
    /\ subject_id(r) \in p_seed_entity_ids \/ object_id(r) \in p_seed_entity_ids
    /\ r.scope = "global" \/ (r.scope = "agent" /\ r.agent_id = p_agent_id)
    /\ r.valid_to = NULL \/ r.valid_to > t

\* Mutant of SubgraphBefore: ORDER BY r.confidence DESC, r.updated_at DESC.
SubgraphBeforeByConfidence(rows, i, j, p_agent_id) ==
    \/ rows[i].confidence > rows[j].confidence
    \/ rows[i].confidence = rows[j].confidence /\ i > j

\* ORDER BY priority_rank, r.confidence DESC, r.updated_at DESC: row i sorts
\* before row j.
SubgraphBefore(rows, i, j, p_agent_id) ==
    LET ri == PriorityRank(rows[i], p_agent_id)
        rj == PriorityRank(rows[j], p_agent_id)
    IN \/ ri < rj
       \/ ri = rj /\ rows[i].confidence > rows[j].confidence
       \/ ri = rj /\ rows[i].confidence = rows[j].confidence /\ i > j

\* get_local_subgraph: the rel_ids of the rows returned, each with its
\* priority_rank.
get_local_subgraph(rows, t, p_user_id, p_agent_id, p_seed_entity_ids, p_edge_cap) ==
    LET matching == {i \in DOMAIN rows :
                        SubgraphWhere(rows[i], p_user_id, p_agent_id, p_seed_entity_ids, t)}
        position(i) == Cardinality({j \in matching : SubgraphBefore(rows, j, i, p_agent_id)})
    IN {[rel_id |-> i, priority_rank |-> PriorityRank(rows[i], p_agent_id)] :
           i \in {k \in matching : position(k) < p_edge_cap}}

subgraphFrame == <<base, session, slow_brain, pulse, dns>>

\* Graph Hydration: one call of get_local_subgraph.
HydrateSubgraph ==
    /\ ~subgraph.called
    /\ \E p_user_id \in {1}, p_agent_id \in {"deanna"}, seeds \in {{1}, {1, 2}},
          p_edge_cap \in 1..MaxRelations :
         subgraph' = [subgraph EXCEPT
                        !.called = TRUE,
                        !.args = [p_user_id |-> p_user_id, p_agent_id |-> p_agent_id,
                                  p_seed_entity_ids |-> seeds, p_edge_cap |-> p_edge_cap],
                        !.result = get_local_subgraph(subgraph.relations, subgraph.now,
                                                      p_user_id, p_agent_id, seeds,
                                                      p_edge_cap)]
    /\ UNCHANGED subgraphFrame

SubgraphInit ==
    /\ BaseIdle
    /\ \E n \in 0..MaxRelations : \E rows \in [1..n -> RelationRows] :
         subgraph = [relations |-> rows, now |-> 2, called |-> FALSE,
                     args |-> [p_user_id |-> NULL, p_agent_id |-> SqlNull,
                               p_seed_entity_ids |-> {}, p_edge_cap |-> 0],
                     result |-> {}]
    /\ session = Unused
    /\ slow_brain = Unused
    /\ pulse = Unused
    /\ dns = Unused

SubgraphNext == HydrateSubgraph

SubgraphSpec == SubgraphInit /\ [][SubgraphNext]_vars

(***************************************************************************)
(* DnsSpec: the CallTool handler of the cloudflare-dns MCP server.  A      *)
(* statement completes by returning a value or by throwing; a missing      *)
(* property reads as undefined and prints as "undefined" in a template     *)
(* literal.  The Cloudflare API is the environment: it reports success     *)
(* only for a request that names its zone (and record) and carries the     *)
(* fields the tool's inputSchema requires.                                 *)
(***************************************************************************)
ToolNames == {"cloudflare_dns_list_zones", "cloudflare_dns_list_records",
              "cloudflare_dns_create_record", "cloudflare_dns_update_record",
              "cloudflare_dns_delete_record"}
CalledNames == ToolNames \cup {"cloudflare_dns_purge"}

\* request.params.arguments: missing, or an object whose properties are
\* each missing or set.
ToolArguments ==
    {Missing} \cup
    {Some(a) : a \in [zone_id : {Missing, Some("z1")}, record_id : {Missing, Some("r1")},
                      type : {Missing, Some("A")}, name : {Missing, Some("www")},
                      content : {Missing, Some("192.0.2.1")}]}

\* `${x}`
Template(x) == IF x = Missing THEN "undefined" ELSE x[1]

Returns(v) == [kind |-> "returned", value |-> v]
Throws(message) == [kind |-> "thrown", value |-> message]

\* The request each tool sends: path, method and the properties of the body
\* that JSON.stringify keeps.
ToolRequest(name, a) ==
    CASE name = "cloudflare_dns_list_zones" ->
            [path |-> <<"zones">>, method |-> "GET", body |-> {}]
      [] name = "cloudflare_dns_list_records" ->
            [path |-> <<"zones", Template(a.zone_id), "dns_records">>,
             method |-> "GET", body |-> {}]
      [] name = "cloudflare_dns_create_record" ->
            [path |-> <<"zones", Template(a.zone_id), "dns_records">>,
             method |-> "POST",
             body |-> {"ttl", "proxied"}
                      \cup {k \in {"type", "name", "content"} : a[k] # Missing}]
      [] name = "cloudflare_dns_update_record" ->
            [path |-> <<"zones", Template(a.zone_id), "dns_records", Template(a.record_id)>>,
             method |-> "PUT",
             body |-> {"ttl", "proxied"}
                      \cup {k \in {"type", "name", "content"} : a[k] # Missing}]
      [] name = "cloudflare_dns_delete_record" ->
            [path |-> <<"zones", Template(a.zone_id), "dns_records", Template(a.record_id)>>,
             method |-> "DELETE", body |-> {}]

\* A request Cloudflare can carry out.
ApiAccepts(req) ==
    /\ \A i \in DOMAIN req.path : req.path[i] # "undefined"
    /\ req.method \in {"POST", "PUT"} => {"type", "name", "content"} \subseteq req.body

\* What fetch and response.json() may give for a request: fetch rejects, the
\* body is not JSON, or the JSON has success false or true.
ApiResponses(req) ==
    {"fetch failed", "not json", "success: false"}
    \cup (IF ApiAccepts(req) THEN {"success: true"} ELSE {})

makeCloudflareRequest(response) ==
    CASE response = "fetch failed" -> Throws("fetch failed")
      [] response = "not json" -> Throws("Unexpected token")
      [] response = "success: false" -> Throws("Cloudflare API Error: ")
      [] response = "success: true" -> Returns("result")

\* The switch statement inside try.
ToolSwitch(name, args, response) ==
    IF name \notin ToolNames THEN Throws("Unknown tool: ")
    ELSE IF args = Missing THEN Throws("Cannot read properties of undefined")
    ELSE LET made == makeCloudflareRequest(response) IN
         IF made.kind = "thrown" THEN made
         ELSE IF name = "cloudflare_dns_delete_record"
         THEN Returns([isError |-> FALSE, text |-> <<"deleted_record_id", "success: true">>])
         ELSE Returns([isError |-> FALSE, text |-> <<made.value>>])

\* Mutant of CallToolHandler: the switch without try / catch.
CallToolHandlerNoCatch(name, args, response) == ToolSwitch(name, args, response)

\* The CallTool handler: try { switch } catch (error) { isError result }.
CallToolHandler(name, args, response) ==
    LET tried == ToolSwitch(name, args, response) IN
    IF tried.kind = "thrown"
    THEN Returns([isError |-> TRUE, text |-> <<"Error: ", tried.value>>])
    ELSE tried

\* The handler reaches makeCloudflareRequest.
SendsRequest(name, args) == name \in ToolNames /\ args # Missing

dnsFrame == <<base, session, slow_brain, pulse, subgraph>>

\* One tools/call request, with Cloudflare's answer when a request is sent.
CallTool ==
    /\ \E name \in CalledNames, args \in ToolArguments :
         IF SendsRequest(name, args)
         THEN \E response \in ApiResponses(ToolRequest(name, args[1])) :
                 dns' = [name |-> name, args |-> args, response |-> response,
                         completion |-> CallToolHandler(name, args, response)]
         ELSE dns' = [name |-> name, args |-> args, response |-> "none",
                      completion |-> CallToolHandler(name, args, "none")]
    /\ UNCHANGED dnsFrame

DnsInit ==
    /\ BaseIdle
    /\ dns = [name |-> "none", args |-> Missing, response |-> "none",
              completion |-> Returns([isError |-> FALSE, text |-> <<>>])]
    /\ session = Unused
    /\ slow_brain = Unused
    /\ pulse = Unused
    /\ subgraph = Unused

DnsNext == CallTool

DnsSpec == DnsInit /\ [][DnsNext]_vars

(***************************************************************************)
(* Claims about resolve_user_app_access (AccessSpec).                      *)
(***************************************************************************)
DecisionCodes ==
    {"authorized", "unknown_user", "blocked", "suspended", "app_inactive", "no_app_access"}

\* The single row of the call awaiting the gate.
Returned1 == resolved.rows[1]

\* The arguments of that call.
ArgStableId == resolved.telegram_user_id
ArgHandle == NormalizeHandle(resolved.telegram_id)

\* The application named in the call is registered and active.
NamedAppActive == \E a \in applications : a.app_name = resolved.app_name /\ a.is_active

\* Account u is denied by its status at the current time.
StatusDenies(u) ==
    \/ u.status = "blocked"
    \/ u.status = "suspended" /\ u.active_after > now

\* C5: an authorized result names an active application of the given name,
\* an account that matches the supplied identity and is neither blocked nor
\* suspended into the future, and the grant that links exactly that account
\* and that application; none of the three ids is null.
C5_AuthorizedOnlyIfEntitled ==
    (resolved.called /\ Returned1.decision = "authorized") =>
        /\ Returned1.user_id # NULL
        /\ Returned1.user_app_id # NULL
        /\ Returned1.app_id # NULL
        /\ \E a \in applications :
              a.app_id = Returned1.app_id /\ a.app_name = resolved.app_name /\ a.is_active
        /\ \E u \in users :
              /\ u.user_id = Returned1.user_id
              /\ MatchesStableId(u, ArgStableId) \/ MatchesHandle(u, ArgHandle)
              /\ ~StatusDenies(u)
        /\ \E g \in user_applications :
              /\ g.user_app_id = Returned1.user_app_id
              /\ g.user_id = Returned1.user_id
              /\ g.app_id = Returned1.app_id

\* Witness of C5: a call returned authorized while a second account exists.
C5_Witness ==
    /\ resolved.called
    /\ Returned1.decision = "authorized"
    /\ Cardinality(users) = 2

\* C6: every call returns exactly one row, and its decision is one of the six
\* codes.
C6_ExactlyOneDecision ==
    resolved.called =>
        /\ Len(resolved.rows) = 1
        /\ Returned1.decision \in DecisionCodes

\* Witness of C6: a call with no stable id and a whitespace-only handle
\* returned on an active application.
C6_Witness ==
    /\ resolved.called
    /\ NamedAppActive
    /\ resolved.telegram_user_id = NULL
    /\ resolved.telegram_id = <<" ">>
    /\ users # {}
    /\ Len(resolved.rows) = 1

\* C7: a call of the resolver leaves users, applications, grants and messages
\* as they were; an expired suspension stays stored as suspended.
C7_ResolverWritesNothing ==
    [][(~resolved.called /\ resolved'.called) => UNCHANGED storeVars]_vars

\* Witness of C7: the call resolved an account whose suspension has expired,
\* treated it as active, and the account is still stored as suspended.
C7_Witness ==
    /\ resolved.called
    /\ Returned1.decision \in {"authorized", "no_app_access"}
    /\ \E u \in users :
          /\ u.user_id = Returned1.user_id
          /\ u.status = "suspended"
          /\ u.active_after <= now

\* C8: when no application of the given name is active, the call returns
\* app_inactive with every other field null, whatever the identity.
C8_InactiveAppFirst ==
    (resolved.called /\ ~NamedAppActive) =>
        resolved.rows = <<Row(NULL, NULL, NULL, "app_inactive", SqlNull, NULL)>>

\* Witness of C8: the application is registered but inactive, and the identity
\* given is that of a blocked account holding a grant for it.
C8_Witness ==
    /\ resolved.called
    /\ Returned1.decision = "app_inactive"
    /\ \E a \in applications, u \in users, g \in user_applications :
          /\ a.app_name = resolved.app_name
          /\ ~a.is_active
          /\ MatchesStableId(u, ArgStableId)
          /\ MatchesHandle(u, ArgHandle)
          /\ u.status = "blocked"
          /\ g.user_id = u.user_id
          /\ g.app_id = a.app_id

\* The decision the contract gives account u for the application app_id.
DecisionFor(u, app_id) ==
    IF u.status = "blocked" THEN "blocked"
    ELSE IF u.status = "suspended" /\ u.active_after > now THEN "suspended"
    ELSE IF \E g \in user_applications : g.user_id = u.user_id /\ g.app_id = app_id
         THEN "authorized"
         ELSE "no_app_access"

\* C9: on an active application, an account matching the stable id is the
\* one resolved (its id, status and decision are returned) whichever account
\* the handle matches; without a stable-id match, the account returned is an
\* earliest-created one among those the handle matches.
C9_StableIdWins ==
    (resolved.called /\ NamedAppActive) =>
        LET byId == {u \in users : MatchesStableId(u, ArgStableId)}
            byHandle == {u \in users : MatchesHandle(u, ArgHandle)}
        IN  /\ \A a \in byId :
                  /\ Returned1.user_id = a.user_id
                  /\ Returned1.user_status = a.status
                  /\ Returned1.active_after = a.active_after
                  /\ Returned1.decision = DecisionFor(a, Returned1.app_id)
            /\ (byId = {} /\ byHandle # {}) =>
                  \E b \in byHandle :
                      /\ Returned1.user_id = b.user_id
                      /\ Returned1.user_status = b.status
                      /\ Returned1.decision = DecisionFor(b, Returned1.app_id)
                      /\ \A w \in byHandle : b.created_at <= w.created_at

\* Witness of C9: the stable id matches A, the handle matches only B, B was
\* created before A and has another status; A is returned.
C9_Witness ==
    /\ resolved.called
    /\ NamedAppActive
    /\ \E a \in users, b \in users :
          /\ a # b
          /\ MatchesStableId(a, ArgStableId)
          /\ ~MatchesHandle(a, ArgHandle)
          /\ MatchesHandle(b, ArgHandle)
          /\ b.created_at < a.created_at
          /\ b.status # a.status
          /\ Returned1.user_id = a.user_id

\* C10: for a matched account stored as suspended, the decision is suspended
\* exactly when active_after is later than the current time; otherwise it is
\* authorized when the account holds a grant for the application and
\* no_app_access when it does not.
C10_SuspensionExpires ==
    resolved.called =>
        \A u \in users :
            (u.user_id = Returned1.user_id /\ u.status = "suspended") =>
                /\ (Returned1.decision = "suspended") <=> (u.active_after > now)
                /\ (u.active_after <= now) =>
                      Returned1.decision =
                          IF \E g \in user_applications :
                                g.user_id = u.user_id /\ g.app_id = Returned1.app_id
                          THEN "authorized" ELSE "no_app_access"

\* Witness of C10: a suspended account whose active_after equals the current
\* time holds a grant and is authorized.
C10_Witness ==
    /\ resolved.called
    /\ Returned1.decision = "authorized"
    /\ \E u \in users :
          /\ u.user_id = Returned1.user_id
          /\ u.status = "suspended"
          /\ u.active_after = now

\* s without the characters of ws at its two ends.
RECURSIVE StripLeft(_, _)
StripLeft(s, ws) == IF s # <<>> /\ Head(s) \in ws THEN StripLeft(Tail(s), ws) ELSE s
RECURSIVE StripRight(_, _)
StripRight(s, ws) ==
    IF s # <<>> /\ s[Len(s)] \in ws THEN StripRight(SubSeq(s, 1, Len(s) - 1), ws) ELSE s

\* What is left of a handle once surrounding characters of ws, one leading
\* "@" and letter case are disregarded; an absent or empty handle, or one
\* made of ws only, is absent.
Canon(h, ws) ==
    IF h = NullHandle THEN NullHandle
    ELSE LET t == StripLeft(StripRight(h, ws), ws) IN
         IF t = <<>> THEN NullHandle
         ELSE Lower(IF Head(t) = "@" THEN Tail(t) ELSE t)

\* Canon of every handle a call may carry, with whitespace taken as space
\* and tab, and as the space character alone.
WhitespaceCanon == [h \in HandleArgs |-> Canon(h, {" ", "\t"})]
SpaceCanon == [h \in HandleArgs |-> Canon(h, {" "})]

\* The accounts the stable id and the handle of the call match.
MatchedById == {u \in users : MatchesStableId(u, ArgStableId)}
MatchedByHandle == {u \in users : MatchesHandle(u, ArgHandle)}

\* Account u is the one the call resolved.
IsMatched(u) ==
    \/ u \in MatchedById
    \/ MatchedById = {} /\ MatchedByHandle = {u}
    \/ u.user_id = Returned1.user_id

\* C11: on an active application a blocked matched account gets the single
\* row blocked, with its account id and the application id and a null grant
\* id, whether or not it holds a grant and whatever its active_after is.
C11_BlockedIsBlocked ==
    (resolved.called /\ NamedAppActive) =>
        \A u \in users :
            (u.status = "blocked" /\ IsMatched(u)) =>
                /\ Len(resolved.rows) = 1
                /\ Returned1.decision = "blocked"
                /\ Returned1.user_id = u.user_id
                /\ Returned1.user_app_id = NULL
                /\ Returned1.app_id \in ActiveAppIds(resolved.app_name)
                /\ Returned1.user_status = "blocked"
                /\ Returned1.active_after = u.active_after

\* Witness of C11: the blocked account returned holds a grant for the
\* application and has a non-null active_after.
C11_Witness ==
    /\ resolved.called
    /\ Returned1.decision = "blocked"
    /\ \E u \in users, g \in user_applications :
          /\ u.user_id = Returned1.user_id
          /\ u.active_after # NULL
          /\ g.user_id = u.user_id
          /\ g.app_id = Returned1.app_id

\* No stored account has the stable id of the call, and none has its handle
\* (surrounding spaces, the leading "@" and letter case disregarded).
NoAccountMatches ==
    /\ \A u \in users :
          \/ resolved.telegram_user_id = NULL
          \/ u.telegram_user_id # resolved.telegram_user_id
    /\ \A u \in users :
          \/ SpaceCanon[resolved.telegram_id] = NullHandle
          \/ u.telegram_id = NullHandle
          \/ Canon(u.telegram_id, {" "}) # SpaceCanon[resolved.telegram_id]

\* C12: on an active application, when no account matches the identity of
\* the call (stable id absent or unmatched; handle absent, empty, made of
\* spaces or unmatched), the call returns the single row unknown_user with
\* null account id and grant id.
C12_NoMatchIsUnknownUser ==
    (resolved.called /\ NamedAppActive /\ NoAccountMatches) =>
        /\ Len(resolved.rows) = 1
        /\ Returned1.decision = "unknown_user"
        /\ Returned1.user_id = NULL
        /\ Returned1.user_app_id = NULL
        /\ \E a \in applications :
              a.app_id = Returned1.app_id /\ a.app_name = resolved.app_name /\ a.is_active

\* Witness of C12: both identity fields absent, while an account without a
\* handle and without a stable id is stored.
C12_Witness ==
    /\ resolved.called
    /\ resolved.telegram_user_id = NULL
    /\ resolved.telegram_id = NullHandle
    /\ Returned1.decision = "unknown_user"
    /\ \E u \in users : u.telegram_id = NullHandle /\ u.telegram_user_id = NULL

\* C13: every stored account is suspended exactly when its active_after is
\* non-null (the store rejects every write that would break either direction).
C13_SuspendedIffActiveAfter ==
    \A u \in users : (u.status = "suspended") <=> (u.active_after # NULL)

\* C15: no two stored accounts hold handles that are equal up to letter case.
C15_HandleUniqueIgnoringCase ==
    \A u, w \in users :
        (/\ u.telegram_id # NullHandle
         /\ w.telegram_id # NullHandle
         /\ Lower(u.telegram_id) = Lower(w.telegram_id)) => u = w

\* C14: every completed message has a response text and a response
\* timestamp and every failed message has an error text; a completing or
\* failing write that a constraint rejects leaves the messages as they were.
C14_TerminalRowsAreComplete ==
    /\ [](\A r \in chat_messages :
            /\ r.status = "completed" => (r.response_text # SqlNull /\ r.responded_at # NULL)
            /\ r.status = "failed" => r.error_message # SqlNull)
    /\ [][(/\ last'.op \in {"complete", "fail"}
           /\ last'.result = "check_violation"
           /\ user_applications' = user_applications)
          => chat_messages' = chat_messages]_vars

\* Witness of C14: a failing write without error text was rejected while a
\* completed message is stored.
C14_Witness ==
    /\ last.op = "fail"
    /\ last.result = "check_violation"
    /\ \E r \in chat_messages : r.status = "completed"

\* C16: every message references an existing grant, and a message disappears
\* only when its grant is gone after the step (a removal of a grant, directly
\* or through its account or application, takes the grant's messages and no
\* others).
C16_MessagesFollowTheirGrant ==
    /\ [](\A r \in chat_messages : GrantExists(r.user_app_id))
    /\ [][\A r \in chat_messages :
            (\A n \in chat_messages' : n.message_id # r.message_id) =>
                (\A g \in user_applications' : g.user_app_id # r.user_app_id)]_vars

\* Witness of C16: two messages were recorded, a grant was removed, and one
\* message (of a remaining grant) is left.
C16_Witness ==
    /\ ids.chat_messages = 2
    /\ Cardinality(chat_messages) = 1
    /\ Cardinality(user_applications) < 3
    /\ \A r \in chat_messages : GrantExists(r.user_app_id)

\* A payload record_if_new must refuse: platform or message_id missing, null
\* or empty.
Malformed(p) ==
    \/ p.platform \in {Absent, JNull, ""}
    \/ p.message_id \in {Absent, JNull, ""}

\* C17: a record_if_new call with a malformed payload gets neither fresh nor
\* duplicate, and no message carries its payload.
C17_MalformedPayloadRejected ==
    \A c \in Callers :
        (calls[c].result # "idle" /\ Malformed(calls[c].payload)) =>
            /\ calls[c].result \notin {"fresh", "duplicate"}
            /\ \A r \in chat_messages : r.source_payload # calls[c].payload

Started(c) == calls[c].stage \in {"fast_brain", "completed"}

\* C18: every stored message was recorded by an execution whose decision was
\* authorized, under the grant id that decision returned; an execution
\* starts Fast Brain only after an authorized decision and a fresh insert;
\* and no two executions start Fast Brain for the same (platform, message_id).
C18_DownstreamAtMostOnce ==
    /\ \A r \in chat_messages :
          \E c \in Callers :
              /\ calls[c].id = r.message_id
              /\ calls[c].row.decision = "authorized"
              /\ calls[c].row.user_app_id = r.user_app_id
    /\ \A c \in Callers :
          Started(c) => (calls[c].row.decision = "authorized" /\ calls[c].id # NULL)
    /\ \A c1, c2 \in Callers :
          (/\ Started(c1)
           /\ Started(c2)
           /\ calls[c1].update.message_id = calls[c2].update.message_id) => c1 = c2

\* The handles that resolve as the handle of the call does.
ResolveAlike ==
    {h \in HandleArgs :
        resolved.rows \in ResolveUserAppAccess(resolved.app_name,
                                               resolved.telegram_user_id, h)}

NormalizesOnce ==
    NormalizeHandle(NormalizeHandle(resolved.telegram_id)) =
        NormalizeHandle(resolved.telegram_id)

\* C20 as stated: normalizing the handle of a call twice gives what
\* normalizing it once gives, and every handle that differs from it only in
\* surrounding whitespace, the leading "@" or letter case resolves to the
\* same row.  Refuted: trim() removes space characters only.
C20_HandleNormalization ==
    resolved.called =>
        /\ NormalizesOnce
        /\ \A h \in HandleArgs :
              WhitespaceCanon[h] = WhitespaceCanon[resolved.telegram_id] =>
                  h \in ResolveAlike

\* C20 as amended: the same with "surrounding space characters" for
\* "surrounding whitespace".
C20_HandleNormalizationSpaces ==
    resolved.called =>
        /\ NormalizesOnce
        /\ \A h \in HandleArgs :
              SpaceCanon[h] = SpaceCanon[resolved.telegram_id] => h \in ResolveAlike

\* Witness of C20: the call carried " A", without stable id, and resolved
\* the account stored as "@a".
C20_Witness ==
    /\ resolved.called
    /\ resolved.telegram_user_id = NULL
    /\ resolved.telegram_id = <<" ", "A">>
    /\ \E u \in users : u.user_id = Returned1.user_id /\ u.telegram_id = <<"@", "a">>

(***************************************************************************)
(* Claims about the session wrapper (SessionSpec).                         *)
(***************************************************************************)
\* The step is a run of the wrapper of the given kind.
IsRun(kind) == session'.run.flip # session.run.flip /\ session'.run.kind = kind

\* The stored session is still alive: the file exists and is younger than
\* twelve hours.
StoredSessionAlive ==
    session.file.exists /\ session.clock - session.file.mtime < 43200

\* C21: a run with an ordinary prompt resumes the stored session exactly
\* when the session file exists and is younger than 43200 s, and then sets
\* the file's modification time to the current time; otherwise it generates
\* an id never used before, writes it to the file and starts a new session
\* with it.
C21_ResumeIffAlive ==
    [][IsRun("prompt") =>
          LET first == session'.run.invocations[1] IN
          /\ first.mode = "resume" <=> StoredSessionAlive
          /\ StoredSessionAlive =>
                /\ first.id = session.file.content
                /\ session'.file.exists
                /\ session'.file.mtime = session.clock
          /\ ~StoredSessionAlive =>
                /\ first.mode = "new"
                /\ first.id > session.next
                /\ session'.file = Written(first.id, session.clock)]_vars

\* Witness of C21: a prompt was resumed on a file aged 43199 s, which now
\* carries the current time.
C21_Witness ==
    /\ session.run.kind = "prompt"
    /\ session.run.invocations[1].mode = "resume"
    /\ session.clock >= 43199
    /\ session.file.mtime = session.clock
    /\ session.ticks = 1

\* C22: a /reset run leaves no session file, invokes claude not at all and
\* exits successfully; the run after it starts a new session under a new
\* id; and no run ever invokes claude with an id a /reset has removed.
C22_ResetForgets ==
    [][/\ IsRun("reset") =>
             /\ ~session'.file.exists
             /\ session'.run.invocations = <<>>
             /\ session'.run.exit = "ok"
       /\ (session.run.kind = "reset" /\ (IsRun("prompt") \/ IsRun("fresh"))) =>
             /\ session'.run.invocations[1].mode = "new"
             /\ session'.run.invocations[1].id > session.next
       /\ \A i \in DOMAIN session'.run.invocations :
             session'.run.invocations[i].id \notin session.forgotten]_vars

\* Witness of C22: a session was reset within its twelve hours and the next
\* prompt ran under another id.
C22_Witness ==
    /\ session.forgotten # {}
    /\ session.run.kind = "prompt"
    /\ session.clock < 43200
    /\ session.run.invocations[1].mode = "new"

\* C23: when the resume fails with the session invalid, the run goes on with
\* one new session under an id never used before, for the same prompt, and
\* that id is in the session file; and after every run that invoked claude
\* the session file holds the id of the run's last invocation.
C23_RecoveryAndFileAgree ==
    /\ [][\A i \in DOMAIN session'.run.invocations :
             (session'.run.flip # session.run.flip
              /\ session'.run.invocations[i].status = "invalid") =>
                 /\ Len(session'.run.invocations) = i + 1
                 /\ session'.run.invocations[i + 1].mode = "new"
                 /\ session'.run.invocations[i + 1].prompt =
                       session'.run.invocations[i].prompt
                 /\ session'.run.invocations[i + 1].id > session.next
                 /\ session'.run.invocations[i + 1].id # session'.run.invocations[i].id
                 /\ session'.file.content = session'.run.invocations[i + 1].id]_vars
    /\ [](session.run.invocations # <<>> =>
             /\ session.file.exists
             /\ session.file.content =
                   session.run.invocations[Len(session.run.invocations)].id)

\* Witness of C23: the last run recovered from an invalid session.
C23_Witness ==
    /\ Len(session.run.invocations) = 2
    /\ session.run.invocations[1].status = "invalid"
    /\ session.run.invocations[2].status = "ok"
    /\ session.file.content = session.run.invocations[2].id

\* C24: when a stable id is supplied, the account the resolver returns never
\* has a stored stable id that is non-null and different from the supplied
\* one, whatever handle came with it.
C24_StableIdAuthoritative ==
    (resolved.called /\ resolved.telegram_user_id # NULL) =>
        \A i \in DOMAIN resolved.rows :
            \A u \in users :
                u.user_id = resolved.rows[i].user_id =>
                    \/ u.telegram_user_id = NULL
                    \/ u.telegram_user_id = resolved.telegram_user_id

(***************************************************************************)
(* Claims about the Slow Brain workflow (SlowBrainSpec).                   *)
(***************************************************************************)
\* The runs past Acquire Run Lock and not yet through Release Run Lock.
WorkingRuns == {r \in Runs : slow_brain.runs[r].pc \notin {"idle", "stopped"}}

\* The task ids on a Redis list.
IdsOn(list) == {list[i].task_id : i \in DOMAIN list}

\* C25: at most one run at a time is past Acquire Run Lock, claiming or
\* processing tasks; a run whose SET NX fails stops without a task; and the
\* DEL of one run never removes the lock another run holds.
C25_OneRunHoldsTheLock ==
    /\ [](Cardinality(WorkingRuns) <= 1)
    /\ [](\A r \in Runs : slow_brain.runs[r].pc = "stopped" =>
             slow_brain.runs[r].task = NoTask)
    /\ [][\A r \in Runs :
             (slow_brain.runs[r].pc = "release" /\ slow_brain'.runs[r].pc = "idle"
              /\ slow_brain.lock \notin {0, r}) =>
                 slow_brain'.lock = slow_brain.lock]_vars

\* C26: a task that failed before is processed again when it is claimed
\* (never acknowledged as already done), a task is dead-lettered only with
\* retry_count >= 5, and every task ever queued is on the queue, on the
\* processing list, stored as an episode, skipped for too few turns, or on
\* the dead-letter queue.
C26_FailedTaskIsRetried ==
    /\ \A r \in Runs :
          (slow_brain.runs[r].pc = "ack" /\ slow_brain.runs[r].task.retry_count > 0) =>
              \/ slow_brain.episodes[slow_brain.runs[r].task.task_id] > 0
              \/ slow_brain.runs[r].task.task_id \in slow_brain.skipped
    /\ \A i \in DOMAIN slow_brain.dlq : slow_brain.dlq[i].retry_count >= 5
    /\ \A t \in TaskIds :
          slow_brain.reflections[t] > 0 =>
              \/ t \in IdsOn(slow_brain.queue)
              \/ t \in IdsOn(slow_brain.processing)
              \/ t \in IdsOn(slow_brain.dlq)
              \/ slow_brain.episodes[t] > 0
              \/ t \in slow_brain.skipped

\* C27 as claimed: no task id ever has its reflection generated or its
\* episode stored more than once.
C27_AtMostOncePerTask ==
    \A t \in TaskIds : slow_brain.reflections[t] <= 1 /\ slow_brain.episodes[t] <= 1

\* C27, amended: while the done key of a task id has not run out, its
\* reflection is generated and its episode stored at most once, and a claim
\* whose SET NX on the done key fails goes to ACK Task and stores nothing.
C27_AtMostOnceWhileDoneKeyLives ==
    /\ [](\A t \in TaskIds \ slow_brain.expired :
             slow_brain.reflections[t] <= 1 /\ slow_brain.episodes[t] <= 1)
    /\ [][\A r \in Runs :
             (slow_brain.runs[r].pc = "guard" /\ slow_brain'.runs[r].pc # "guard"
              /\ slow_brain.runs[r].task.task_id \in slow_brain.done) =>
                 /\ slow_brain'.runs[r].pc = "ack"
                 /\ slow_brain'.episodes = slow_brain.episodes
                 /\ slow_brain'.reflections = slow_brain.reflections]_vars

\* Witness of C27: a second delivery of a task whose episode is stored is on
\* its way to ACK Task, the done key still alive.
C27_Witness ==
    \E r \in Runs :
        /\ slow_brain.runs[r].pc = "ack"
        /\ slow_brain.runs[r].task.retry_count = 0
        /\ slow_brain.runs[r].task.task_id \in slow_brain.done \ slow_brain.expired
        /\ slow_brain.episodes[slow_brain.runs[r].task.task_id] = 1
        /\ slow_brain.queued = 2
        /\ slow_brain.processing = <<slow_brain.runs[r].task>>

(***************************************************************************)
(* Claims about the Pulse & Decay node (PulseSpec).                        *)
(***************************************************************************)
\* C28: the node never raises a confidence that lies in [0,1]; the
\* confidence it leaves is 0, with label neutral, or at least 0.3; and a
\* missing affect becomes neutral with confidence 0.
C28_OnlyDecaysOrFlushes ==
    pulse.stage = "output" =>
        IF pulse.item.affect = <<>>
        THEN pulse.affect[1].label = "neutral" /\ pulse.affect[1].confidence = 0
        ELSE /\ pulse.affect[1].confidence <= pulse.item.affect[1].confidence
             /\ \/ pulse.affect[1].confidence = 0 /\ pulse.affect[1].label = "neutral"
                \/ 10 * pulse.affect[1].confidence >= 3 * (ConfidenceSteps * 200)

\* Witness of C28: a short message on a pulse count took a confidence of
\* 0.45 to 0.29925, which the forced flush set to 0.
C28_Witness ==
    /\ pulse.stage = "output"
    /\ pulse.item.affect # <<>>
    /\ 100 * pulse.item.affect[1].confidence = 45 * (ConfidenceSteps * 200)
    /\ pulse.item.affect[1].label = "angry"
    /\ pulse.item.affect[1].decay_at = <<1>>
    /\ pulse.affect[1].confidence = 0
    /\ pulse.affect[1].label = "neutral"
    /\ pulse.affect[1].pulse # <<>>
    /\ ~pulse.affect[1].pulse[1].still_valid

(***************************************************************************)
(* Claims about get_local_subgraph (SubgraphSpec).                         *)
(***************************************************************************)
\* The stored rows a call returned; a stored row of the requested user,
\* touching a seed, global or of the requested agent, with no valid_to in
\* the past; and the priority rank of a stored row.
ReturnedIds == {x.rel_id : x \in subgraph.result}
Eligible(i) ==
    LET r == subgraph.relations[i] IN
    /\ r.user_id = subgraph.args.p_user_id
    /\ r.ends[1] \in subgraph.args.p_seed_entity_ids
          \/ r.ends[2] \in subgraph.args.p_seed_entity_ids
    /\ r.scope = "global" \/ r.agent_id = subgraph.args.p_agent_id
    /\ ~(r.valid_to # 0 /\ r.valid_to < subgraph.now)
RankOf(i) ==
    LET r == subgraph.relations[i] IN
    IF r.scope = "agent" /\ r.agent_id = subgraph.args.p_agent_id THEN 1
    ELSE IF r.predicate \in {"ALLERGY", "SAFETY_BOUNDARY", "MEDICATION", "INTOLERANCE",
                             "EMERGENCY_CONTACT"} THEN 2
    ELSE IF r.scope = "global" /\ r.confidence >= 8 THEN 3
    ELSE 4

\* C29: a call returns at most edge_cap relations, each of the requested
\* user, touching a seed, global or scoped to the requested agent, and not
\* ended in the past; and no such relation, still valid, that was left out
\* has a better priority rank than a returned one.
C29_SubgraphIsCappedAndScoped ==
    subgraph.called =>
        /\ Cardinality(ReturnedIds) <= subgraph.args.p_edge_cap
        /\ \A i \in ReturnedIds : Eligible(i)
        /\ \A i \in ReturnedIds :
              \A j \in DOMAIN subgraph.relations \ ReturnedIds :
                  Eligible(j) /\ subgraph.relations[j].valid_to # subgraph.now =>
                      RankOf(j) >= RankOf(i)

\* Witness of C29: two relations matched, the cap of 1 kept the one scoped
\* to the agent and left out a critical global one.
C29_Witness ==
    /\ subgraph.called
    /\ subgraph.args.p_edge_cap = 1
    /\ \E i \in ReturnedIds :
          \E j \in DOMAIN subgraph.relations \ ReturnedIds :
              /\ Eligible(j)
              /\ RankOf(i) = 1
              /\ RankOf(j) = 2
              /\ subgraph.relations[j].confidence > subgraph.relations[i].confidence

(***************************************************************************)
(* Claims about the cloudflare-dns MCP server (DnsSpec).                   *)
(***************************************************************************)
\* The properties each tool's inputSchema lists as required.
RequiredOf(name) ==
    CASE name = "cloudflare_dns_list_records" -> {"zone_id"}
      [] name = "cloudflare_dns_create_record" -> {"zone_id", "type", "name", "content"}
      [] name = "cloudflare_dns_update_record" ->
            {"zone_id", "record_id", "type", "name", "content"}
      [] name = "cloudflare_dns_delete_record" -> {"zone_id", "record_id"}
      [] OTHER -> {}

\* The call came without arguments, or without one its tool requires.
ArgumentsMissing ==
    \/ dns.args = <<>>
    \/ \E k \in RequiredOf(dns.name) : dns.args[1][k] = <<>>

====
